---- MODULE Spec2Model ----
(***************************************************************************)
(* Mullvad relay benchmarking (mullvad_speed_test.py): the catalog parser  *)
(* of MullvadTester._get_servers, the connection calibration, the          *)
(* per-relay test procedure of test_server and the progressive search loop *)
(* of run_tests.                                                           *)
(*                                                                         *)
(* Times are integers in milliseconds, speeds in Mbps, distances in km.    *)
(* A hostname "jp-tyo-wg-001" is the tuple <<"jp","tyo","wg",1>>, so that  *)
(* hostname.split('-')[0] is its first component.                          *)
(***************************************************************************)
EXTENDS Integers, Sequences, FiniteSets, TLC

----------------------------------------------------------------------------
(* Program constants.  MAX_SERVERS_HARD_LIMIT (100 in the source) and      *)
(* MIN_VIABLE_SERVERS (10 in the source) are scaled down so that runs that *)
(* reach them stay enumerable; every use of them is as in the source.      *)

MAX_SERVERS_HARD_LIMIT == 5

MIN_VIABLE_SERVERS == 2

MIN_DOWNLOAD_SPEED == 5

DEFAULT_CONNECTION_TIME == 15000

MAX_CONNECTION_TIME == 10000

\* timeout=2 of the "mullvad status" poll in connect_to_server
STATUS_POLL_TIMEOUT == 2000

\* float('inf'): larger than every finite distance and every --max-distance
Inf == 1000000

\* Python's None where a number is expected (max_distance, session_id)
None == -1

\* the (0.0, 0.0) that stands for "no coordinates"
NoCoords == <<0, 0>>

\* a local variable that has not been assigned yet
Unbound == <<>>

\* BEIJING_COORDS, in whole degrees
BEIJING_COORDS == <<40, 116>>

\* self.default_coords when --default-lat / --default-lon were not both given
NoDefault == <<>>

ContinentOrder ==
    <<"North America", "South America", "Europe", "Asia", "Oceania", "Africa">>

CONTINENT_MAPPING ==
    [c \in {ContinentOrder[i] : i \in 1..Len(ContinentOrder)} |->
        CASE c = "North America" -> <<"us", "ca", "mx">>
          [] c = "South America" -> <<"br", "ar", "cl", "co", "pe">>
          [] c = "Europe" -> <<"gb", "uk", "de", "fr", "it", "es", "nl", "se",
                               "no", "dk", "fi", "ch", "at", "be", "ie", "pt",
                               "pl", "cz", "gr", "ro", "hu">>
          [] c = "Asia" -> <<"jp", "kr", "sg", "hk", "in", "my", "th", "vn",
                             "id", "ph", "tw", "cn">>
          [] c = "Oceania" -> <<"au", "nz">>
          [] c = "Africa" -> <<"za", "eg", "ng", "ke", "ma">>]

----------------------------------------------------------------------------
(* Bounds of the model.                                                    *)

\* long runs: largest --max-servers tried, largest relay pool
MaxServersArg == 6

MaxPool == 6

\* runs with the full probe: largest --max-servers tried, largest relay pool
ProbeServersArg == 2

ProbePool == 2

\* catalog parsing: most lines in a relay listing
MaxLines == 5

\* location resolving: most calls of _get_location_coordinates, most
\* processes they are spread over
MaxCalls == 3

MaxRuns == 2

\* summaries: most relays with a result
MaxScored == 2

----------------------------------------------------------------------------
(* Data.                                                                   *)

SpeedTestResult(d, u, p, j, l) ==
    [download_speed |-> d, upload_speed |-> u, ping |-> p, jitter |-> j,
     packet_loss |-> l]

MtrResult(a, l, h) == [avg_latency |-> a, packet_loss |-> l, hops |-> h]

ServerInfo(h, country, city, proto, dist) ==
    [hostname |-> h, country |-> country, city |-> city, protocol |-> proto,
     distance_km |-> dist]

\* the relays "mullvad relay list" can report, nearest first (the last one
\* sits in a city without coordinates: its distance is float('inf'))
Catalog ==
    << ServerInfo(<<"se", "sto", "ovpn", 1>>, "Sweden", "Stockholm", "OpenVPN", 100),
       ServerInfo(<<"jp", "tyo", "wg", 1>>, "Japan", "Tokyo", "WireGuard", 200),
       ServerInfo(<<"nl", "ams", "wg", 1>>, "Netherlands", "Amsterdam", "WireGuard", 300),
       ServerInfo(<<"de", "fra", "wg", 1>>, "Germany", "Frankfurt", "WireGuard", 300),
       ServerInfo(<<"de", "fra", "wg", 2>>, "Germany", "Frankfurt", "WireGuard", 400),
       ServerInfo(<<"de", "ber", "wg", 3>>, "Germany", "Berlin", "WireGuard", 500),
       ServerInfo(<<"de", "dus", "wg", 4>>, "Germany", "Dusseldorf", "WireGuard", 600),
       ServerInfo(<<"al", "tia", "wg", 1>>, "Albania", "Tirana", "WireGuard", Inf) >>

Hostnames == {Catalog[i].hostname : i \in 1..Len(Catalog)}

NoServer == ServerInfo(<<>>, "", "", "", 0)

----------------------------------------------------------------------------
(* Strings that are searched for substrings are tuples of characters.      *)

\* location_continents of _get_location_continent, in dict order
location_continents ==
    << <<<<"c", "h", "i", "n", "a">>, "Asia">>,
       <<<<"b", "e", "i", "j", "i", "n", "g">>, "Asia">>,
       <<<<"t", "o", "k", "y", "o">>, "Asia">>,
       <<<<"j", "a", "p", "a", "n">>, "Asia">>,
       <<<<"i", "n", "d", "i", "a">>, "Asia">>,
       <<<<"s", "i", "n", "g", "a", "p", "o", "r", "e">>, "Asia">>,
       <<<<"h", "o", "n", "g", "k", "o", "n", "g">>, "Asia">>,
       <<<<"s", "e", "o", "u", "l">>, "Asia">>,
       <<<<"k", "o", "r", "e", "a">>, "Asia">>,
       <<<<"t", "h", "a", "i", "l", "a", "n", "d">>, "Asia">>,
       <<<<"m", "a", "l", "a", "y", "s", "i", "a">>, "Asia">>,
       <<<<"v", "i", "e", "t", "n", "a", "m">>, "Asia">>,
       <<<<"i", "n", "d", "o", "n", "e", "s", "i", "a">>, "Asia">>,
       <<<<"p", "h", "i", "l", "i", "p", "p", "i", "n", "e", "s">>, "Asia">>,
       <<<<"t", "a", "i", "w", "a", "n">>, "Asia">>,
       <<<<"f", "r", "a", "n", "c", "e">>, "Europe">>,
       <<<<"p", "a", "r", "i", "s">>, "Europe">>,
       <<<<"g", "e", "r", "m", "a", "n", "y">>, "Europe">>,
       <<<<"b", "e", "r", "l", "i", "n">>, "Europe">>,
       <<<<"u", "k">>, "Europe">>,
       <<<<"l", "o", "n", "d", "o", "n">>, "Europe">>,
       <<<<"i", "t", "a", "l", "y">>, "Europe">>,
       <<<<"r", "o", "m", "e">>, "Europe">>,
       <<<<"s", "p", "a", "i", "n">>, "Europe">>,
       <<<<"m", "a", "d", "r", "i", "d">>, "Europe">>,
       <<<<"n", "e", "t", "h", "e", "r", "l", "a", "n", "d", "s">>, "Europe">>,
       <<<<"a", "m", "s", "t", "e", "r", "d", "a", "m">>, "Europe">>,
       <<<<"s", "w", "e", "d", "e", "n">>, "Europe">>,
       <<<<"s", "t", "o", "c", "k", "h", "o", "l", "m">>, "Europe">>,
       <<<<"s", "w", "i", "t", "z", "e", "r", "l", "a", "n", "d">>, "Europe">>,
       <<<<"z", "u", "r", "i", "c", "h">>, "Europe">>,
       <<<<"u", "s", "a">>, "North America">>,
       <<<<"u", "n", "i", "t", "e", "d", " ", "s", "t", "a", "t", "e", "s">>, "North America">>,
       <<<<"n", "e", "w", " ", "y", "o", "r", "k">>, "North America">>,
       <<<<"l", "o", "s", " ", "a", "n", "g", "e", "l", "e", "s">>, "North America">>,
       <<<<"c", "a", "n", "a", "d", "a">>, "North America">>,
       <<<<"t", "o", "r", "o", "n", "t", "o">>, "North America">>,
       <<<<"v", "a", "n", "c", "o", "u", "v", "e", "r">>, "North America">>,
       <<<<"m", "e", "x", "i", "c", "o">>, "North America">>,
       <<<<"b", "r", "a", "z", "i", "l">>, "South America">>,
       <<<<"a", "r", "g", "e", "n", "t", "i", "n", "a">>, "South America">>,
       <<<<"c", "h", "i", "l", "e">>, "South America">>,
       <<<<"c", "o", "l", "o", "m", "b", "i", "a">>, "South America">>,
       <<<<"p", "e", "r", "u">>, "South America">>,
       <<<<"a", "u", "s", "t", "r", "a", "l", "i", "a">>, "Oceania">>,
       <<<<"s", "y", "d", "n", "e", "y">>, "Oceania">>,
       <<<<"m", "e", "l", "b", "o", "u", "r", "n", "e">>, "Oceania">>,
       <<<<"n", "e", "w", " ", "z", "e", "a", "l", "a", "n", "d">>, "Oceania">>,
       <<<<"s", "o", "u", "t", "h", " ", "a", "f", "r", "i", "c", "a">>, "Africa">>,
       <<<<"e", "g", "y", "p", "t">>, "Africa">>,
       <<<<"n", "i", "g", "e", "r", "i", "a">>, "Africa">>,
       <<<<"k", "e", "n", "y", "a">>, "Africa">>,
       <<<<"m", "o", "r", "o", "c", "c", "o">>, "Africa">> >>

\* continent.lower() for the keys of CONTINENT_MAPPING
ContinentLower ==
    [c \in {ContinentOrder[i] : i \in 1..Len(ContinentOrder)} |->
        CASE c = "North America" -> <<"n", "o", "r", "t", "h", " ", "a", "m", "e", "r", "i", "c", "a">>
          [] c = "South America" -> <<"s", "o", "u", "t", "h", " ", "a", "m", "e", "r", "i", "c", "a">>
          [] c = "Europe" -> <<"e", "u", "r", "o", "p", "e">>
          [] c = "Asia" -> <<"a", "s", "i", "a">>
          [] c = "Oceania" -> <<"o", "c", "e", "a", "n", "i", "a">>
          [] c = "Africa" -> <<"a", "f", "r", "i", "c", "a">>]

\* the characters of a country code
CodeChars(cc) ==
    CASE cc = "us" -> <<"u", "s">>
      [] cc = "ca" -> <<"c", "a">>
      [] cc = "mx" -> <<"m", "x">>
      [] cc = "br" -> <<"b", "r">>
      [] cc = "ar" -> <<"a", "r">>
      [] cc = "cl" -> <<"c", "l">>
      [] cc = "co" -> <<"c", "o">>
      [] cc = "pe" -> <<"p", "e">>
      [] cc = "gb" -> <<"g", "b">>
      [] cc = "uk" -> <<"u", "k">>
      [] cc = "de" -> <<"d", "e">>
      [] cc = "fr" -> <<"f", "r">>
      [] cc = "it" -> <<"i", "t">>
      [] cc = "es" -> <<"e", "s">>
      [] cc = "nl" -> <<"n", "l">>
      [] cc = "se" -> <<"s", "e">>
      [] cc = "no" -> <<"n", "o">>
      [] cc = "dk" -> <<"d", "k">>
      [] cc = "fi" -> <<"f", "i">>
      [] cc = "ch" -> <<"c", "h">>
      [] cc = "at" -> <<"a", "t">>
      [] cc = "be" -> <<"b", "e">>
      [] cc = "ie" -> <<"i", "e">>
      [] cc = "pt" -> <<"p", "t">>
      [] cc = "pl" -> <<"p", "l">>
      [] cc = "cz" -> <<"c", "z">>
      [] cc = "gr" -> <<"g", "r">>
      [] cc = "ro" -> <<"r", "o">>
      [] cc = "hu" -> <<"h", "u">>
      [] cc = "jp" -> <<"j", "p">>
      [] cc = "kr" -> <<"k", "r">>
      [] cc = "sg" -> <<"s", "g">>
      [] cc = "hk" -> <<"h", "k">>
      [] cc = "in" -> <<"i", "n">>
      [] cc = "my" -> <<"m", "y">>
      [] cc = "th" -> <<"t", "h">>
      [] cc = "vn" -> <<"v", "n">>
      [] cc = "id" -> <<"i", "d">>
      [] cc = "ph" -> <<"p", "h">>
      [] cc = "tw" -> <<"t", "w">>
      [] cc = "cn" -> <<"c", "n">>
      [] cc = "au" -> <<"a", "u">>
      [] cc = "nz" -> <<"n", "z">>
      [] cc = "za" -> <<"z", "a">>
      [] cc = "eg" -> <<"e", "g">>
      [] cc = "ng" -> <<"n", "g">>
      [] cc = "ke" -> <<"k", "e">>
      [] cc = "ma" -> <<"m", "a">>

\* "Beijing, Beijing, China"
DEFAULT_LOCATION ==
    <<"B", "e", "i", "j", "i", "n", "g", ",", " ", "B", "e", "i", "j", "i", "n", "g", ",", " ", "C", "h", "i", "n", "a">>

\* --location "Berlin, Germany"
LocBerlin ==
    <<"B", "e", "r", "l", "i", "n", ",", " ", "G", "e", "r", "m", "a", "n", "y">>

----------------------------------------------------------------------------
(* Pure helpers.                                                           *)

Last(s) == s[Len(s)]

Front(s) == SubSeq(s, 1, Len(s) - 1)

Range(s) == {s[i] : i \in 1..Len(s)}

\* Python's "sub in s" on strings
Contains(s, sub) ==
    \E i \in 1..(Len(s) - Len(sub) + 1) : SubSeq(s, i, i + Len(sub) - 1) = sub

\* str.lower() on one character (the letters the model's locations use)
LowerChar(c) ==
    CASE c = "B" -> "b" [] c = "C" -> "c" [] c = "G" -> "g" [] OTHER -> c

\* location.lower().replace(',', ' ').replace('.', ' ')
CleanLocation(location) ==
    [i \in 1..Len(location) |->
        LET c == LowerChar(location[i])
        IN  IF c = "," \/ c = "." THEN " " ELSE c]

\* hostname.split('-')[0]
CountryCode(server) == server.hostname[1]

\* a sort that puts a relay before the relays of equal distance
RECURSIVE SortByDistanceUnstable(_)
SortByDistanceUnstable(s) ==
    IF s = <<>> THEN <<>>
    ELSE LET x == Last(s)
             sorted == SortByDistanceUnstable(Front(s))
             k == Cardinality({i \in 1..Len(sorted) :
                                  sorted[i].distance_km < x.distance_km})
         IN  SubSeq(sorted, 1, k) \o <<x>> \o SubSeq(sorted, k + 1, Len(sorted))

\* list.sort(key=lambda x: x.distance_km): stable, ascending
SortByDistance(s) ==
    \* SortSeq inserts each element after the elements it is not less than:
    \* with a strict comparison relays of equal distance keep their order
    SortSeq(s, LAMBDA a, b : a.distance_km < b.distance_km)

\* protocol.lower() in s.protocol.lower(); the protocols are "WireGuard" and
\* "OpenVPN", neither of which contains the other
ProtocolMatches(proto, server) == proto = server.protocol

\* [s for s in self.servers if protocol.lower() in s.protocol.lower()]
ProtocolServers(all, proto) ==
    SelectSeq(all, LAMBDA s : ProtocolMatches(proto, s))

\* a run that does not apply --max-distance
FilterByDistanceOff(list, maxd) == list

\* all_servers_filtered of run_tests
FilterByDistance(list, maxd) ==
    IF maxd # None
    THEN SelectSeq(list, LAMBDA s : s.distance_km <= maxd)
    ELSE list

\* a slice one relay too long
InitialBatchOver(list, n) ==
    SubSeq(list, 1, IF n + 1 < Len(list) THEN n + 1 ELSE Len(list))

\* all_servers_filtered[:max_servers]
InitialBatch(list, n) == SubSeq(list, 1, IF n < Len(list) THEN n ELSE Len(list))

\* remaining relays that still hold the initial batch
RemainingWithBatch(list, n) == list

\* all_servers_filtered[max_servers:]
RemainingAfter(list, n) == SubSeq(list, n + 1, Len(list))

\* server_countries[country] of run_tests: the relays of one country code, in
\* list order
ServersOfCountry(list, cc) == SelectSeq(list, LAMBDA s : CountryCode(s) = cc)

RECURSIVE ServersOfCountries(_, _)
ServersOfCountries(list, codes) ==
    IF codes = <<>> THEN <<>>
    ELSE ServersOfCountry(list, Head(codes)) \o ServersOfCountries(list, Tail(codes))

\* the loop over CONTINENT_MAPPING.items() that fills outside_continent_servers
RECURSIVE OutsideOf(_, _, _)
OutsideOf(list, continents, user) ==
    IF continents = <<>> THEN <<>>
    ELSE (IF Head(continents) # user
          THEN ServersOfCountries(list, CONTINENT_MAPPING[Head(continents)])
          ELSE <<>>)
         \o OutsideOf(list, Tail(continents), user)

\* a second phase that keeps every remaining relay
AllRemainingServers(list, user) == SortByDistance(list)

\* a second phase that leaves the relays in the order of the continent map
OutsideUnsorted(list, user) == OutsideOf(list, ContinentOrder, user)

\* remaining_servers on entry to the second phase
OutsideContinentServers(list, user) ==
    SortByDistance(OutsideOf(list, ContinentOrder, user))

\* _get_location_continent
GetLocationContinent(location) ==
    LET location_lower == CleanLocation(location)
        byName == {i \in 1..Len(ContinentOrder) :
                      Contains(location_lower, ContinentLower[ContinentOrder[i]])}
        byLoc == {i \in 1..Len(location_continents) :
                      Contains(location_lower, location_continents[i][1])}
        byCode == {i \in 1..Len(ContinentOrder) :
                      \E j \in 1..Len(CONTINENT_MAPPING[ContinentOrder[i]]) :
                          Contains(location_lower,
                                   CodeChars(CONTINENT_MAPPING[ContinentOrder[i]][j]))}
        Min(S) == CHOOSE x \in S : \A y \in S : x <= y
    IN  IF byName # {} THEN ContinentOrder[Min(byName)]
        ELSE IF byLoc # {} THEN location_continents[Min(byLoc)][2]
        ELSE IF byCode # {} THEN ContinentOrder[Min(byCode)]
        ELSE "Europe"

----------------------------------------------------------------------------
(* What the collaborators can answer.                                      *)

\* SpeedTestResult(0, 0, 0, 0, 100): the speed test failed
FailedSpeedtest == SpeedTestResult(0, 0, 0, 0, 100)

\* MtrResult(0, 100, 0): the MTR test failed or was skipped
FailedMtr == MtrResult(0, 100, 0)

\* what _run_speedtest returns for a measured download of d Mbps
Measured(d) == SpeedTestResult(d, 10, 20, 1, 0)

\* what _run_mtr returns for a measured average latency
Traced(latency) == MtrResult(latency, 0, 8)

\* The answers of the external processes, in full: the elapsed time at which
\* "mullvad status" can say Connected, the ways connect_to_server can fail,
\* the results of _run_speedtest and of _run_mtr, the row id of the session
\* (None when sqlite raised).  Every result row is stored and every process
\* that is waited for comes back.
FullProbe ==
    [times |-> {2000, 12000},
     fails |-> {"setup", "timeout"},
     speedtests |-> {FailedSpeedtest, Measured(MIN_DOWNLOAD_SPEED - 1),
                     Measured(MIN_DOWNLOAD_SPEED), Measured(MIN_DOWNLOAD_SPEED + 1)},
     mtrs |-> {FailedMtr, Traced(30)},
     sessions |-> {1, None},
     saves |-> {TRUE},
     returns |-> {TRUE}]

\* The answers kept for the runs about the calls themselves: in addition,
\* whether the INSERT of a result row went through, and whether a process that
\* is waited for without a time limit comes back.
CallProbe ==
    [times |-> {2000, 12000},
     fails |-> {"timeout"},
     speedtests |-> {FailedSpeedtest, Measured(MIN_DOWNLOAD_SPEED)},
     mtrs |-> {FailedMtr, Traced(30)},
     sessions |-> {1, None},
     saves |-> BOOLEAN,
     returns |-> BOOLEAN]

\* The answers kept for the long runs: a relay fails to connect, or connects
\* and is measured below or at the minimum download speed.
RunProbe ==
    [times |-> {2000},
     fails |-> {"timeout"},
     speedtests |-> {Measured(MIN_DOWNLOAD_SPEED - 1), Measured(MIN_DOWNLOAD_SPEED)},
     mtrs |-> {Traced(30)},
     sessions |-> {1},
     saves |-> {TRUE},
     returns |-> {TRUE}]

\* --max-distance values tried
MaxDistances == {None, 400}

\* --protocol choices of main()
Protocols == {"WireGuard", "OpenVPN"}

\* --location values tried
Locations == {DEFAULT_LOCATION, LocBerlin}

\* relay lists "mullvad relay list" may yield: windows of at most n
\* consecutive relays of the catalog
Pools(n) ==
    {SubSeq(Catalog, w[1], w[1] + w[2] - 1) :
        w \in {v \in (1..(Len(Catalog) + 1)) \X (0..n) :
                  v[1] + v[2] - 1 <= Len(Catalog)}}

----------------------------------------------------------------------------
(* State.                                                                  *)

VARIABLES
    servers,                \* self.servers
    reference_location,     \* self.reference_location
    user_continent,         \* self.user_continent
    connection_timeout,     \* self.connection_timeout
    connection_time,        \* server.connection_time, by hostname
    successful_servers,     \* self.successful_servers
    results,                \* self.results, in insertion order
    protocol,               \* run_tests argument
    max_servers,            \* run_tests argument
    max_distance,           \* run_tests argument
    pc,                     \* position in __init__ / run_tests / test_server
    test_servers,           \* calibration: relays still to sample
    conn_times,             \* calibration: measured connection times
    session_id,             \* run_tests local
    initial_servers,        \* run_tests local
    remaining_servers,      \* run_tests local
    total_servers_to_test,  \* run_tests local
    tested_servers,         \* run_tests local
    viable_servers,         \* run_tests local
    server,                 \* the relay under test
    speedtest_result,       \* test_server local
    mtr_result,             \* test_server local
    viable,                 \* test_server local
    outcome,                \* how the main loop ended
    expansion,              \* history: tallies on entry to the second phase
    trace,                  \* history: what was invoked for the relay under test
    lines,                  \* _get_servers: the lines of "mullvad relay list"
    line_no,                \* _get_servers: lines consumed so far
    reference_coords,       \* self.reference_coords
    current_country,        \* _get_servers local
    current_city,           \* _get_servers local
    current_coords,         \* _get_servers local, Unbound until first assigned
    parsed,                 \* _get_servers local "servers"
    coords_cache,           \* self.coords_cache
    cache_file,             \* what geocoords_cache.pkl holds
    default_coords,         \* self.default_coords, NoDefault for None
    geo_log,                \* history: the calls of _get_location_coordinates
    run_no,                 \* history: which process the tester belongs to
    interactive,            \* self.interactive
    db_rows,                \* the hostnames of the rows of table server_results
    rankings,               \* _print_summary: the top lists it prints
    best_overall            \* _print_summary: the scored relays, best first

objvars == <<servers, reference_location, user_continent, connection_timeout,
             connection_time, successful_servers, results>>

argvars == <<protocol, max_servers, max_distance>>

calvars == <<test_servers, conn_times>>

runvars == <<session_id, initial_servers, remaining_servers, total_servers_to_test,
             tested_servers, viable_servers, outcome, expansion>>

testvars == <<server, speedtest_result, mtr_result, viable, trace>>

parsevars == <<lines, line_no, reference_coords, current_country, current_city,
               current_coords, parsed>>

resvars == <<coords_cache, cache_file, default_coords, geo_log, run_no>>

\* what a run leaves behind: the stored rows and the printed summary
outvars == <<db_rows, rankings, best_overall>>

\* what run_tests and test_server never touch before a result is recorded
sidevars == <<parsevars, resvars, interactive, outvars>>

vars == <<objvars, argvars, calvars, runvars, testvars, sidevars, pc>>

\* a cache without entries; a location without entry maps to Unbound
EmptyCache == [l \in Locations |-> Unbound]

\* reading a local raises UnboundLocalError unless it was assigned
IsBound(value) == value # Unbound

\* self.reference_coords for the locations of the model, in whole degrees
ReferenceCoords(location) ==
    IF location = LocBerlin THEN <<53, 13>> ELSE <<40, 116>>

\* before _print_summary has run nothing is ranked
NoRankings ==
    [distance |-> <<>>, connection_time |-> <<>>, download |-> <<>>,
     upload |-> <<>>, latency |-> <<>>, packet_loss |-> <<>>]

----------------------------------------------------------------------------
(* Construction: MullvadTester.__init__ after _get_servers returned.       *)

\* the fields and locals that neither parsing nor construction has touched
InitRun ==
    /\ user_continent = "unset"
    /\ connection_timeout = MAX_CONNECTION_TIME
    /\ connection_time = [h \in Hostnames |-> 0]
    /\ successful_servers = 0
    /\ results = <<>>
    /\ test_servers = <<>>
    /\ conn_times = <<>>
    /\ session_id = None
    /\ initial_servers = <<>>
    /\ remaining_servers = <<>>
    /\ total_servers_to_test = <<>>
    /\ tested_servers = <<>>
    /\ viable_servers = 0
    /\ server = NoServer
    /\ speedtest_result = FailedSpeedtest
    /\ mtr_result = FailedMtr
    /\ viable = FALSE
    /\ outcome = "none"
    /\ expansion = [entered |-> FALSE, tested |-> 0, viable |-> 0]
    /\ trace = <<>>
    /\ geo_log = <<>>
    /\ run_no = 1
    /\ db_rows = <<>>
    /\ rankings = NoRankings
    /\ best_overall = <<>>

\* the constructor goes on with a pool that is empty
AfterConstructionProceeds(pool) == "start"

\* "if not self.servers: ... sys.exit(1)"
AfterConstruction(pool) == IF pool = <<>> THEN "exit" ELSE "start"

InitWith(pools, maxargs, modes) ==
    /\ servers \in pools
    /\ interactive \in modes
    /\ reference_location \in Locations
    /\ protocol \in Protocols
    /\ max_servers \in maxargs
    /\ max_distance \in MaxDistances
    /\ pc = AfterConstruction(servers)
    /\ InitRun
    /\ coords_cache = EmptyCache
    /\ cache_file = EmptyCache
    /\ default_coords = NoDefault
    \* _get_servers has returned: its locals are gone
    /\ lines = <<>>
    /\ line_no = 0
    /\ reference_coords = ReferenceCoords(reference_location)
    /\ current_country = ""
    /\ current_city = ""
    /\ current_coords = Unbound
    /\ parsed = <<>>

Init == InitWith(Pools(MaxPool), 0..MaxServersArg, {FALSE})

\* runs with the full probe take no --max-distance
InitProbe ==
    /\ InitWith(Pools(ProbePool), 0..ProbeServersArg, {FALSE})
    /\ max_distance = None

\* the same runs with and without the interactive display
InitCalls ==
    /\ InitWith(Pools(ProbePool), 0..ProbeServersArg, BOOLEAN)
    /\ max_distance = None

----------------------------------------------------------------------------
(* _get_servers: the parser of "mullvad relay list".                       *)
(*                                                                         *)
(* A line is described by the fields the three patterns look at.  Its form *)
(* says which pattern, if any, the text satisfies:                         *)
(*   "country"  Name (cc), the name made of letters and blanks;            *)
(*   "city"     Name (code) @ lat, lon written as the city pattern wants;  *)
(*   "relay"    cc-city-wg|ovpn-N (ip[, ipv6]) - protocol[, hosted by p]   *)
(*              (ownership);                                               *)
(*   "city_other"  a city heading the city pattern rejects (a name with a  *)
(*              letter outside A-Z a-z, a degree sign in another encoding);*)
(*   "other"    any other text, blank lines included.                      *)

Line(form, name, hostname, proto) ==
    [form |-> form, name |-> name, hostname |-> hostname, protocol |-> proto]

\* the lines catalogs are made of
LineSet ==
    { Line("country", "Sweden", <<>>, ""),
      Line("country", "Germany", <<>>, ""),
      Line("city", "Stockholm", <<>>, ""),
      Line("city", "Gothenburg", <<>>, ""),
      Line("city_other", "Malmo", <<>>, ""),
      Line("relay", "", <<"se", "sto", "wg", 1>>, "WireGuard"),
      Line("relay", "", <<"de", "ber", "ovpn", 2>>, "OpenVPN"),
      Line("other", "", <<>>, "") }

\* the catalogs of at most n lines
Catalogs(n) == UNION {[1..k -> LineSet] : k \in 0..n}

\* re.match of the country pattern
CountryMatch(line) == line.form = "country"

\* re.match of the city pattern
CityMatch(line) == line.form = "city"

\* re.match of the server pattern
ServerMatch(line) == line.form = "relay"

\* mullvad_coordinates.get_coordinates: COORDINATES.get(key, (0.0, 0.0)), in
\* whole degrees
get_coordinates(city, country) ==
    CASE city = "Stockholm" /\ country = "Sweden" -> <<59, 18>>
      [] city = "Gothenburg" /\ country = "Sweden" -> <<58, 12>>
      [] OTHER -> NoCoords

\* geopy's geodesic(a, b).kilometers, to the grid
Geodesic(a, b) ==
    LET Abs(x) == IF x < 0 THEN -x ELSE x
    IN  111 * (Abs(a[1] - b[1]) + Abs(a[2] - b[2]))

\* the sentinel looked for in the relay's coordinates only
CalculateDistanceRelayOnly(server_coords) ==
    IF server_coords = NoCoords THEN Inf
    ELSE Geodesic(reference_coords, server_coords)

\* _calculate_distance
CalculateDistance(server_coords) ==
    IF server_coords = NoCoords \/ reference_coords = NoCoords THEN Inf
    ELSE Geodesic(reference_coords, server_coords)

\* the reference coordinates a run can have: resolved, or the (0.0, 0.0) that
\* _get_location_coordinates returns when every lookup failed
ReferencePoints == {<<40, 116>>, NoCoords}

\* the state at the top of the "for ... in enumerate(lines)" loop
InitParse ==
    /\ servers = <<>>
    /\ reference_location = DEFAULT_LOCATION
    /\ protocol = "WireGuard"
    /\ max_servers = 0
    /\ max_distance = None
    /\ pc = "parse"
    /\ interactive = FALSE
    /\ InitRun
    /\ coords_cache = EmptyCache
    /\ cache_file = EmptyCache
    /\ default_coords = NoDefault
    /\ lines \in Catalogs(MaxLines)
    /\ line_no = 0
    /\ reference_coords \in ReferencePoints
    /\ current_country = ""
    /\ current_city = ""
    /\ current_coords = Unbound
    /\ parsed = <<>>

\* "if country_match: current_country = ...; continue"
ParseCountry ==
    /\ pc = "parse"
    /\ line_no < Len(lines)
    /\ CountryMatch(lines[line_no + 1])
    /\ current_country' = lines[line_no + 1].name
    /\ line_no' = line_no + 1
    /\ UNCHANGED <<objvars, argvars, calvars, runvars, testvars, resvars, interactive,
                   outvars, pc, lines,
                   reference_coords, current_city, current_coords, parsed>>

\* "if city_match: current_city = ...; current_coords = get_coordinates(...)"
ParseCity ==
    /\ pc = "parse"
    /\ line_no < Len(lines)
    /\ ~CountryMatch(lines[line_no + 1])
    /\ CityMatch(lines[line_no + 1])
    /\ current_city' = lines[line_no + 1].name
    /\ current_coords' = get_coordinates(lines[line_no + 1].name, current_country)
    /\ line_no' = line_no + 1
    /\ UNCHANGED <<objvars, argvars, calvars, runvars, testvars, resvars, interactive,
                   outvars, pc, lines,
                   reference_coords, current_country, parsed>>

\* the line matches one of the first two patterns
HeadingMatch(line) == CountryMatch(line) \/ CityMatch(line)

\* "if server_match:" with current_coords assigned: servers.append(ServerInfo(...))
ParseServer ==
    /\ pc = "parse"
    /\ line_no < Len(lines)
    /\ ~HeadingMatch(lines[line_no + 1])
    /\ ServerMatch(lines[line_no + 1])
    /\ IsBound(current_coords)
    /\ parsed' = Append(parsed,
                        ServerInfo(lines[line_no + 1].hostname, current_country,
                                   current_city, lines[line_no + 1].protocol,
                                   CalculateDistance(current_coords)))
    /\ line_no' = line_no + 1
    /\ UNCHANGED <<objvars, argvars, calvars, runvars, testvars, resvars, interactive,
                   outvars, pc, lines,
                   reference_coords, current_country, current_city, current_coords>>

\* "if server_match:" before any city line matched: reading current_coords
\* raises UnboundLocalError; "except Exception" returns [] (or exits), and
\* __init__ exits on the empty list
ParseRaise ==
    /\ pc = "parse"
    /\ line_no < Len(lines)
    /\ ~HeadingMatch(lines[line_no + 1])
    /\ ServerMatch(lines[line_no + 1])
    /\ ~IsBound(current_coords)
    /\ servers' = <<>>
    /\ pc' = "exit"
    /\ UNCHANGED <<reference_location, user_continent, connection_timeout,
                   connection_time, successful_servers, results, argvars, calvars,
                   runvars, testvars, sidevars>>

\* no pattern matches: the line is logged and skipped
ParseSkip ==
    /\ pc = "parse"
    /\ line_no < Len(lines)
    /\ ~HeadingMatch(lines[line_no + 1])
    /\ ~ServerMatch(lines[line_no + 1])
    /\ line_no' = line_no + 1
    /\ UNCHANGED <<objvars, argvars, calvars, runvars, testvars, resvars, interactive,
                   outvars, pc, lines,
                   reference_coords, current_country, current_city, current_coords,
                   parsed>>

\* end of the loop: servers.sort(key=distance_km); return; then __init__'s
\* "if not self.servers: sys.exit(1)"
ParseReturn ==
    /\ pc = "parse"
    /\ line_no = Len(lines)
    /\ servers' = SortByDistance(parsed)
    /\ pc' = AfterConstruction(parsed)
    /\ UNCHANGED <<reference_location, user_continent, connection_timeout,
                   connection_time, successful_servers, results, argvars, calvars,
                   runvars, testvars, sidevars>>

NextParse ==
    \/ ParseCountry
    \/ ParseCity
    \/ ParseServer
    \/ ParseRaise
    \/ ParseSkip
    \/ ParseReturn

\* construction: the catalog parser alone
SpecParse == InitParse /\ [][NextParse]_vars

----------------------------------------------------------------------------
(* _get_location_coordinates, non-interactive, and the coordinate cache.   *)

\* location.lower().startswith("beijing")
StartsWithBeijing(location) ==
    /\ Len(location) >= 7
    /\ [i \in 1..7 |-> LowerChar(location[i])] = <<"b", "e", "i", "j", "i", "n", "g">>

\* what Nominatim answers for a location it knows, in whole degrees
GeocoderCoords(location) ==
    IF location = LocBerlin THEN <<53, 13>> ELSE <<40, 116>>

\* what the geocoder can do: a result, None, or an exception
GeocoderOutcomes == {"found", "not_found", "error"}

\* the values --default-lat / --default-lon can give self.default_coords
Defaults == {NoDefault, <<31, 121>>}

\* a fallback that never looks at the caller's default
FallbackCoordsNoDefault(location) ==
    IF StartsWithBeijing(location) THEN BEIJING_COORDS ELSE NoCoords

\* the non-interactive fallback, the same after "not found" and after an
\* exception: default_coords, BEIJING_COORDS, (0.0, 0.0)
FallbackCoords(location) ==
    IF default_coords # NoDefault THEN default_coords
    ELSE IF StartsWithBeijing(location) THEN BEIJING_COORDS
    ELSE NoCoords

\* a cache that is never written
CacheAfterNever(cache, location, answer, coords) == cache

\* "self.coords_cache[location] = coords" happens on the success path only
CacheAfter(cache, location, answer, coords) ==
    IF answer = "found" THEN [cache EXCEPT ![location] = coords] ELSE cache

\* the caches a geocoords_cache.pkl left by earlier processes can hold
CacheFiles ==
    {EmptyCache, [EmptyCache EXCEPT ![DEFAULT_LOCATION] = BEIJING_COORDS]}

\* a tester has been constructed up to "self.coords_cache = _load_coords_cache()"
InitResolve ==
    /\ servers = <<>>
    /\ reference_location \in Locations
    /\ protocol = "WireGuard"
    /\ max_servers = 0
    /\ max_distance = None
    /\ pc = "locate"
    /\ interactive = FALSE
    /\ InitRun
    /\ cache_file \in CacheFiles
    \* pickle.load succeeded, or the file is missing or unreadable
    /\ coords_cache \in {cache_file, EmptyCache}
    /\ default_coords \in Defaults
    /\ lines = <<>>
    /\ line_no = 0
    /\ reference_coords = NoCoords
    /\ current_country = ""
    /\ current_city = ""
    /\ current_coords = Unbound
    /\ parsed = <<>>

\* "if location in self.coords_cache: return coords"
ResolveCached ==
    /\ pc = "locate"
    /\ Len(geo_log) < MaxCalls
    /\ IsBound(coords_cache[reference_location])
    /\ reference_coords' = coords_cache[reference_location]
    /\ geo_log' = Append(geo_log, [location |-> reference_location, run |-> run_no,
                                   outcome |-> "cached",
                                   coords |-> coords_cache[reference_location]])
    /\ UNCHANGED <<objvars, argvars, calvars, runvars, testvars, interactive, outvars,
                   pc, lines, line_no,
                   current_country, current_city, current_coords, parsed,
                   coords_cache, cache_file, default_coords, run_no>>

\* the cache misses: geolocator.geocode(location) is called; a result is
\* cached and saved (_save_coords_cache swallows a failed write), anything
\* else falls back
ResolveGeocode ==
    /\ pc = "locate"
    /\ Len(geo_log) < MaxCalls
    /\ ~IsBound(coords_cache[reference_location])
    /\ \E answer \in GeocoderOutcomes, written \in BOOLEAN :
          LET coords == IF answer = "found" THEN GeocoderCoords(reference_location)
                        ELSE FallbackCoords(reference_location)
              cache == CacheAfter(coords_cache, reference_location, answer, coords)
          IN  /\ reference_coords' = coords
              /\ coords_cache' = cache
              /\ cache_file' = IF answer = "found" /\ written THEN cache
                               ELSE cache_file
              /\ geo_log' = Append(geo_log, [location |-> reference_location,
                                             run |-> run_no, outcome |-> answer,
                                             coords |-> coords])
    /\ UNCHANGED <<objvars, argvars, calvars, runvars, testvars, interactive, outvars,
                   pc, lines, line_no,
                   current_country, current_city, current_coords, parsed,
                   default_coords, run_no>>

\* the caller asks about another location
NextLocation ==
    /\ pc = "locate"
    /\ Len(geo_log) < MaxCalls
    /\ reference_location' \in Locations \ {reference_location}
    /\ UNCHANGED <<servers, user_continent, connection_timeout, connection_time,
                   successful_servers, results, argvars, calvars, runvars, testvars,
                   pc, sidevars>>

\* a later process constructs its tester: the cache comes from the file
NewTester ==
    /\ pc = "locate"
    /\ Len(geo_log) < MaxCalls
    /\ run_no < MaxRuns
    /\ run_no' = run_no + 1
    /\ coords_cache' \in {cache_file, EmptyCache}
    /\ default_coords' \in Defaults
    /\ reference_coords' = NoCoords
    /\ UNCHANGED <<objvars, argvars, calvars, runvars, testvars, interactive, outvars,
                   pc, lines, line_no,
                   current_country, current_city, current_coords, parsed,
                   cache_file, geo_log>>

NextResolve ==
    \/ ResolveCached
    \/ ResolveGeocode
    \/ NextLocation
    \/ NewTester

\* construction: the location resolver alone
SpecResolve == InitResolve /\ [][NextResolve]_vars

----------------------------------------------------------------------------
(* connect_to_server.                                                      *)

\* The elapsed times the polling loop can record on success.
\* With the progress bar, total_elapsed is read before the status call and the
\* loop breaks once it has reached the timeout.  Without it, the poll that saw
\* "Connected" began while time.time() < end_time, its status call returned
\* within its own timeout, and the clock is read again after it.
CanRecord(t, timeout) ==
    IF interactive THEN t < timeout
    ELSE t - STATUS_POLL_TIMEOUT < timeout

\* What connect_to_server(s) can do: its return value and the value it leaves
\* in s.connection_time.
\*   setup command fails or times out (return False, field untouched);
\*   polling runs out (field set to 0, return False);
\*   status says Connected (field set to the elapsed time, return True).
ConnectToServer(s, P) ==
    {[ok |-> FALSE, how |-> f,
      time |-> IF f = "setup" THEN connection_time[s.hostname] ELSE 0] :
        f \in P.fails}
    \cup {[ok |-> TRUE, how |-> "connected", time |-> t] :
             t \in {u \in P.times : CanRecord(u, connection_timeout)}}

----------------------------------------------------------------------------
(* run_tests: entry.                                                       *)

\* a run that goes to the session without calibrating
AfterFilterUncalibrated(protocol_servers) ==
    IF protocol_servers = <<>> THEN "done" ELSE "session"

\* "if not protocol_servers: ... return", else run_connection_calibration
AfterFilter(protocol_servers) ==
    IF protocol_servers = <<>> THEN "done" ELSE "calibrate"

\* the protocol filter and the early return when nothing matches
StartRun ==
    /\ pc = "start"
    /\ successful_servers' = 0
    /\ viable_servers' = 0
    /\ pc' = AfterFilter(ProtocolServers(servers, protocol))
    /\ outcome' = IF ProtocolServers(servers, protocol) = <<>>
                  THEN "no_protocol_servers"
                  ELSE outcome
    /\ UNCHANGED <<sidevars, servers, reference_location, user_continent, connection_timeout,
                   connection_time, results, argvars, calvars, session_id,
                   initial_servers, remaining_servers, total_servers_to_test,
                   tested_servers, expansion, testvars>>

----------------------------------------------------------------------------
(* run_connection_calibration.                                             *)

\* available_continents: the continents of CONTINENT_MAPPING with a relay, in
\* dict order
AvailableContinents ==
    SelectSeq(ContinentOrder,
              LAMBDA c : ServersOfCountries(servers, CONTINENT_MAPPING[c]) # <<>>)

\* one random.choice per available continent; the timeout is raised to the
\* default for the sampling
CalSelect ==
    /\ pc = "calibrate"
    /\ user_continent' = GetLocationContinent(reference_location)
    /\ \E pick \in [1..Len(AvailableContinents) -> Range(servers)] :
          /\ \A i \in 1..Len(AvailableContinents) :
                pick[i] \in Range(ServersOfCountries(
                                servers, CONTINENT_MAPPING[AvailableContinents[i]]))
          /\ test_servers' = pick
    /\ connection_timeout' = DEFAULT_CONNECTION_TIME
    /\ conn_times' = <<>>
    /\ pc' = "cal_connect"
    /\ UNCHANGED <<sidevars, servers, reference_location, connection_time, successful_servers,
                   results, argvars, runvars, testvars>>

\* a sampling loop that never disconnects
AfterSampleStaysConnected(ok) == "cal_connect"

\* "if self.connect_to_server(server):" of the sampling loop: the disconnect
\* is inside the branch of a successful connection
AfterSample(ok) == IF ok THEN "cal_disconnect" ELSE "cal_connect"

\* "if self.connect_to_server(server): conn_times.append(...)"
CalConnect(P) ==
    /\ pc = "cal_connect"
    /\ test_servers # <<>>
    /\ \E r \in ConnectToServer(Head(test_servers), P) :
          /\ connection_time' =
                [connection_time EXCEPT ![Head(test_servers).hostname] = r.time]
          /\ conn_times' = IF r.ok THEN Append(conn_times, r.time) ELSE conn_times
          /\ pc' = AfterSample(r.ok)
          \* the next sample is taken at the end of the loop body
          /\ test_servers' = IF AfterSample(r.ok) = "cal_disconnect"
                             THEN test_servers
                             ELSE Tail(test_servers)
    /\ UNCHANGED <<sidevars, servers, reference_location, user_continent, connection_timeout,
                   successful_servers, results, argvars, runvars, testvars>>

\* "mullvad disconnect" after a successful sample: subprocess.run without a
\* timeout, so the loop goes on when the process returns (its failure is
\* swallowed) and waits for as long as it does not
CalDisconnect(P) ==
    /\ pc = "cal_disconnect"
    /\ \E returned \in P.returns :
          IF returned
          THEN /\ test_servers' = Tail(test_servers)
               /\ pc' = "cal_connect"
          ELSE /\ test_servers' = test_servers
               /\ pc' = "blocked"
    /\ UNCHANGED <<sidevars, objvars, argvars, conn_times, runvars, testvars>>

RECURSIVE Sum(_)
Sum(s) == IF s = <<>> THEN 0 ELSE Head(s) + Sum(Tail(s))

\* the buffered average without the cap
CalibratedTimeoutUncapped(times) == ((Sum(times) \div Len(times)) * 3) \div 2

\* min(avg_conn_time * 1.5, DEFAULT_CONNECTION_TIME), to the millisecond
CalibratedTimeout(times) ==
    LET avg_conn_time == Sum(times) \div Len(times)
        buffered == (avg_conn_time * 3) \div 2
    IN  IF buffered < DEFAULT_CONNECTION_TIME THEN buffered
        ELSE DEFAULT_CONNECTION_TIME

\* "if conn_times: ... else: self.connection_timeout = DEFAULT_CONNECTION_TIME"
CalFinish ==
    /\ pc = "cal_connect"
    /\ test_servers = <<>>
    /\ connection_timeout' =
          IF conn_times # <<>> THEN CalibratedTimeout(conn_times)
          ELSE DEFAULT_CONNECTION_TIME
    /\ conn_times' = <<>>
    /\ pc' = "session"
    /\ UNCHANGED <<sidevars, servers, reference_location, user_continent, connection_time,
                   successful_servers, results, argvars, test_servers, runvars,
                   testvars>>

----------------------------------------------------------------------------
(* run_tests: session, initial batch, main loop.                           *)

\* the INSERT into test_sessions: a row id, or None when sqlite raised
CreateSession(P) ==
    /\ pc = "session"
    /\ session_id' \in P.sessions
    /\ pc' = "select"
    /\ UNCHANGED <<sidevars, objvars, argvars, calvars, initial_servers, remaining_servers,
                   total_servers_to_test, tested_servers, viable_servers, outcome,
                   expansion, testvars>>

\* all_servers_filtered, initial_servers, remaining_servers, tested_servers,
\* total_servers_to_test
SelectInitial ==
    /\ pc = "select"
    /\ LET all_servers_filtered ==
               FilterByDistance(ProtocolServers(servers, protocol), max_distance)
       IN  /\ initial_servers' = InitialBatch(all_servers_filtered, max_servers)
           /\ remaining_servers' = RemainingAfter(all_servers_filtered, max_servers)
           /\ total_servers_to_test' = InitialBatch(all_servers_filtered, max_servers)
    /\ tested_servers' = <<>>
    /\ pc' = "loop"
    /\ UNCHANGED <<sidevars, objvars, argvars, calvars, session_id, viable_servers, outcome,
                   expansion, testvars>>

\* the loop left with an error where it gave up
AfterBreakRaises(why) == IF why = "goal" THEN "summary" ELSE "aborted"

\* "break", and the loop's end: the statements after the loop come next
AfterBreak(why) == "summary"

\* "while total_servers_to_test:" is true: pop(0), append to tested_servers
LoopPop ==
    /\ pc = "loop"
    /\ total_servers_to_test # <<>>
    /\ server' = Head(total_servers_to_test)
    /\ total_servers_to_test' = Tail(total_servers_to_test)
    /\ tested_servers' = Append(tested_servers, Head(total_servers_to_test))
    /\ trace' = <<>>
    /\ pc' = "connect"
    /\ UNCHANGED <<sidevars, objvars, argvars, calvars, session_id, initial_servers,
                   remaining_servers, viable_servers, outcome, expansion,
                   speedtest_result, mtr_result, viable>>

\* "while total_servers_to_test:" is false
LoopExit ==
    /\ pc = "loop"
    /\ total_servers_to_test = <<>>
    /\ outcome' = "list_empty"
    /\ pc' = AfterBreak("list_empty")
    /\ UNCHANGED <<sidevars, objvars, argvars, calvars, session_id, initial_servers,
                   remaining_servers, total_servers_to_test, tested_servers,
                   viable_servers, expansion, testvars>>

----------------------------------------------------------------------------
(* test_server.                                                            *)

\* the threshold itself counted as too slow
SpeedViableStrict(speedtest) ==
    ~(speedtest.download_speed <= MIN_DOWNLOAD_SPEED /\ speedtest.download_speed > 0)

\* step 3: a positive download below MIN_DOWNLOAD_SPEED is non-viable
SpeedViable(speedtest) ==
    ~(speedtest.download_speed < MIN_DOWNLOAD_SPEED /\ speedtest.download_speed > 0)

\* "if speedtest_result.download_speed > 0 and mtr_result.avg_latency > 0"
Responded(speedtest, mtr) == speedtest.download_speed > 0 /\ mtr.avg_latency > 0

\* a failed connection that is reported as a viable relay
ConnectFailedViable ==
    [speedtest |-> FailedSpeedtest, mtr |-> FailedMtr, viable |-> TRUE]

\* "return SpeedTestResult(0, 0, 0, 0, 100), MtrResult(0, 100, 0), False"
ConnectFailed ==
    [speedtest |-> FailedSpeedtest, mtr |-> FailedMtr, viable |-> FALSE]

\* a failed connection that does not return
AfterConnectAlways(ok) == "speedtest"

\* "if not self.connect_to_server(server): return ..."; otherwise on to the
\* speed test, the next statement
AfterConnect(ok) == IF ok THEN "speedtest" ELSE "record"

\* step 1: connect; on failure return the failed results at once
Connect(P) ==
    /\ pc = "connect"
    /\ \E r \in ConnectToServer(server, P) :
          /\ connection_time' = [connection_time EXCEPT ![server.hostname] = r.time]
          /\ trace' = Append(trace, r.how)
          /\ pc' = AfterConnect(r.ok)
          /\ IF r.ok
             THEN /\ viable' = TRUE
                  /\ UNCHANGED <<speedtest_result, mtr_result>>
             ELSE /\ viable' = ConnectFailed.viable
                  /\ speedtest_result' = ConnectFailed.speedtest
                  /\ mtr_result' = ConnectFailed.mtr
    /\ UNCHANGED <<sidevars, servers, reference_location, user_continent, connection_timeout,
                   successful_servers, results, argvars, calvars, runvars, server>>

\* the MTR test run whatever the speed test gave
SkipMtrNever(speedtest) == FALSE

\* step 4: "if speedtest_result.download_speed == 0" the MTR test is skipped
SkipMtr(speedtest) == speedtest.download_speed = 0

\* steps 2 to 4 up to the MTR test; when it is skipped, the final check too
RunSpeedtest(P) ==
    /\ pc = "speedtest"
    /\ \E r \in P.speedtests :
          /\ speedtest_result' = r
          /\ IF SkipMtr(r)
             THEN /\ mtr_result' = FailedMtr
                  /\ viable' = (SpeedViable(r) /\ Responded(r, FailedMtr))
                  /\ successful_servers' =
                        IF Responded(r, FailedMtr) THEN successful_servers + 1
                        ELSE successful_servers
                  /\ pc' = "record"
             ELSE /\ viable' = SpeedViable(r)
                  /\ pc' = "mtr"
                  /\ UNCHANGED <<mtr_result, successful_servers>>
    /\ trace' = Append(trace, "speedtest")
    /\ UNCHANGED <<sidevars, servers, reference_location, user_continent, connection_timeout,
                   connection_time, results, argvars, calvars, runvars, server>>

\* _run_mtr waits without a time limit: with the spinner it polls the
\* process until it has exited ("timeout = 60" is passed to check_output on
\* the other path only)
MtrWaits(mode) == mode

\* step 4 (else branch) and the final check
RunMtr(P) ==
    /\ pc = "mtr"
    /\ \E m \in P.mtrs, returned \in P.returns :
          IF returned \/ ~MtrWaits(interactive)
          THEN /\ mtr_result' = m
               /\ viable' = (viable /\ Responded(speedtest_result, m))
               /\ successful_servers' =
                     IF Responded(speedtest_result, m) THEN successful_servers + 1
                     ELSE successful_servers
               /\ pc' = "record"
          ELSE /\ pc' = "blocked"
               /\ UNCHANGED <<mtr_result, viable, successful_servers>>
    /\ trace' = Append(trace, "mtr")
    /\ UNCHANGED <<sidevars, servers, reference_location, user_continent, connection_timeout,
                   connection_time, results, argvars, calvars, runvars, server,
                   speedtest_result>>

----------------------------------------------------------------------------
(* run_tests: after test_server returned.                                  *)

\* self.results[hostname] = value: a dict keeps a key's first position
ResultsPut(res, h, value) ==
    IF \E i \in 1..Len(res) : res[i].hostname = h
    THEN [i \in 1..Len(res) |-> IF res[i].hostname = h THEN value ELSE res[i]]
    ELSE Append(res, value)

\* a failed INSERT that is raised to run_tests
AfterSavePropagated(saved) == IF saved THEN "control" ELSE "aborted"

\* _save_results_to_db catches every exception and returns False, and its
\* return value is not looked at
AfterSave(saved) == "control"

\* what server_results holds after the save: nothing is tried without a
\* session, nothing is added when the INSERT fails
RowsAfter(rows, session, saved, h) ==
    IF session # None /\ saved THEN Append(rows, h) ELSE rows

\* self.results[...] = ...; "if viable: viable_servers += 1"; the save
Record(P) ==
    /\ pc = "record"
    /\ results' = ResultsPut(results, server.hostname,
                             [hostname |-> server.hostname,
                              speedtest |-> speedtest_result,
                              mtr |-> mtr_result,
                              viable |-> viable])
    /\ viable_servers' = IF viable THEN viable_servers + 1 ELSE viable_servers
    /\ \E saved \in P.saves :
          /\ db_rows' = RowsAfter(db_rows, session_id, saved, server.hostname)
          /\ pc' = IF session_id # None THEN AfterSave(saved) ELSE "control"
    /\ UNCHANGED <<parsevars, resvars, interactive, rankings, best_overall, servers, reference_location, user_continent, connection_timeout,
                   connection_time, successful_servers, argvars, calvars, session_id,
                   initial_servers, remaining_servers, total_servers_to_test,
                   tested_servers, outcome, expansion, testvars>>

\* idx = len(tested_servers)
idx == Len(tested_servers)

\* stopping as soon as the quota is met
GoalMetEarly(v, i, m) == v >= MIN_VIABLE_SERVERS

\* stopping only once more than the initial batch has been tested
GoalMetLate(v, i, m) == v >= MIN_VIABLE_SERVERS /\ i > m

\* "if viable_servers >= MIN_VIABLE_SERVERS and idx >= max_servers"
GoalMet(v, i, m) == v >= MIN_VIABLE_SERVERS /\ i >= m

\* "if idx < max_servers: continue"
InFirstPhase(i, m) == i < m

\* the hard limit compared with ">"
AtHardLimitLate(n) == n > MAX_SERVERS_HARD_LIMIT

\* "if len(tested_servers) >= MAX_SERVERS_HARD_LIMIT"
AtHardLimit(n) == n >= MAX_SERVERS_HARD_LIMIT

\* a second phase that takes the remaining relays as they are
RemainingAsIs == remaining_servers

\* remaining_servers as the second phase sees it: regrouped outside the
\* user's continent the first time (idx == max_servers), as left otherwise
SecondPhaseRemaining ==
    IF idx = max_servers
    THEN OutsideContinentServers(remaining_servers, user_continent)
    ELSE remaining_servers

\* the history of the first entry into the second phase
NoteExpansion ==
    expansion' = IF idx = max_servers
                 THEN [entered |-> TRUE, tested |-> idx, viable |-> viable_servers]
                 ELSE expansion

\* "Stop if we have enough viable servers": break
GoalAchieved ==
    /\ pc = "control"
    /\ GoalMet(viable_servers, idx, max_servers)
    /\ outcome' = "goal"
    /\ pc' = AfterBreak("goal")
    /\ UNCHANGED <<sidevars, objvars, argvars, calvars, session_id, initial_servers,
                   remaining_servers, total_servers_to_test, tested_servers,
                   viable_servers, expansion, testvars>>

\* "Continue first phase": continue
ContinueInitial ==
    /\ pc = "control"
    /\ ~GoalMet(viable_servers, idx, max_servers)
    /\ InFirstPhase(idx, max_servers)
    /\ pc' = "loop"
    /\ UNCHANGED <<sidevars, objvars, argvars, calvars, runvars, testvars>>

\* second phase, "Reached hard limit": break
HardLimitReached ==
    /\ pc = "control"
    /\ ~GoalMet(viable_servers, idx, max_servers)
    /\ ~InFirstPhase(idx, max_servers)
    /\ viable_servers < MIN_VIABLE_SERVERS
    /\ remaining_servers' = SecondPhaseRemaining
    /\ NoteExpansion
    /\ AtHardLimit(Len(tested_servers))
    /\ outcome' = "hard_limit"
    /\ pc' = AfterBreak("hard_limit")
    /\ UNCHANGED <<sidevars, objvars, argvars, calvars, session_id, initial_servers,
                   total_servers_to_test, tested_servers, viable_servers, testvars>>

\* second phase, "Add next server from remaining list"
AddNextServer ==
    /\ pc = "control"
    /\ ~GoalMet(viable_servers, idx, max_servers)
    /\ ~InFirstPhase(idx, max_servers)
    /\ viable_servers < MIN_VIABLE_SERVERS
    /\ NoteExpansion
    /\ ~AtHardLimit(Len(tested_servers))
    /\ SecondPhaseRemaining # <<>>
    /\ remaining_servers' = Tail(SecondPhaseRemaining)
    /\ total_servers_to_test' = Append(total_servers_to_test, Head(SecondPhaseRemaining))
    /\ pc' = "loop"
    /\ UNCHANGED <<sidevars, objvars, argvars, calvars, session_id, initial_servers,
                   tested_servers, viable_servers, outcome, testvars>>

\* second phase, "No more servers available to test": break
NoMoreServers ==
    /\ pc = "control"
    /\ ~GoalMet(viable_servers, idx, max_servers)
    /\ ~InFirstPhase(idx, max_servers)
    /\ viable_servers < MIN_VIABLE_SERVERS
    /\ NoteExpansion
    /\ ~AtHardLimit(Len(tested_servers))
    /\ SecondPhaseRemaining = <<>>
    /\ remaining_servers' = SecondPhaseRemaining
    /\ outcome' = "no_more_servers"
    /\ pc' = AfterBreak("no_more_servers")
    /\ UNCHANGED <<sidevars, objvars, argvars, calvars, session_id, initial_servers,
                   total_servers_to_test, tested_servers, viable_servers, testvars>>

----------------------------------------------------------------------------
(* _print_summary and _calculate_best_overall_servers.                     *)
(*                                                                         *)
(* A ranking is a sequence of <<hostname, value>> pairs.  A score is kept  *)
(* exact, as the fraction num / den of a thousandth:                       *)
(*   1000 * score * max_download * max_upload = num / den.                 *)

\* the "[:5]" of every table
TopN == 5

Top(seq, n) == SubSeq(seq, 1, IF Len(seq) < n THEN Len(seq) ELSE n)

\* sorted(..., key=...) on <<hostname, value, key>>: ascending and stable
SortedByKey(seq) ==
    \* SortSeq inserts each element after the elements it is not less than:
    \* with a strict comparison equal keys keep their order
    SortSeq(seq, LAMBDA a, b : a[3] < b[3])

\* the <<hostname, value>> pairs of the sorted <<hostname, value, key>>
Ranked(keyed) ==
    LET sorted == SortedByKey(keyed)
    IN  [i \in 1..Len(sorted) |-> <<sorted[i][1], sorted[i][2]>>]

\* "key=lambda x: x[1]"
Ascending(x) == x

\* "key=lambda x: x[1], reverse=True": equal keys keep their order
Descending(x) == 0 - x

\* "key=lambda x: x[1] if x[1] > 0 else float('inf')"
PositiveFirst(x) == IF x > 0 THEN x ELSE Inf

\* every hostname with a result counted as viable
all_hostname_set(res) == {res[i].hostname : i \in 1..Len(res)}

\* {hostname for hostname, (_, _, viable) in self.results.items() if viable}
viable_hostname_set(res) ==
    {res[i].hostname : i \in {j \in 1..Len(res) : res[j].viable}}

\* the results whose hostname is in the viable set, in dict order
ViableResults(res) ==
    SelectSeq(res, LAMBDA r : r.hostname \in viable_hostname_set(res))

servers_by_distance(pool, res) ==
    LET listed == SelectSeq(pool, LAMBDA x : x.hostname \in viable_hostname_set(res))
    IN  Ranked([i \in 1..Len(listed) |->
                  <<listed[i].hostname, listed[i].distance_km,
                    Ascending(listed[i].distance_km)>>])

servers_by_download(res) ==
    LET listed == ViableResults(res)
    IN  Ranked([i \in 1..Len(listed) |->
                  <<listed[i].hostname, listed[i].speedtest.download_speed,
                    Descending(listed[i].speedtest.download_speed)>>])

servers_by_upload(res) ==
    LET listed == ViableResults(res)
    IN  Ranked([i \in 1..Len(listed) |->
                  <<listed[i].hostname, listed[i].speedtest.upload_speed,
                    Descending(listed[i].speedtest.upload_speed)>>])

servers_by_latency(res) ==
    LET listed == ViableResults(res)
    IN  Ranked([i \in 1..Len(listed) |->
                  <<listed[i].hostname, listed[i].mtr.avg_latency,
                    PositiveFirst(listed[i].mtr.avg_latency)>>])

servers_by_packet_loss(res) ==
    LET listed == ViableResults(res)
    IN  Ranked([i \in 1..Len(listed) |->
                  <<listed[i].hostname,
                    listed[i].speedtest.packet_loss + listed[i].mtr.packet_loss,
                    Ascending(listed[i].speedtest.packet_loss
                              + listed[i].mtr.packet_loss)>>])

\* the orders in which a set can be iterated
RECURSIVE IterationOrders(_)
IterationOrders(S) ==
    IF S = {} THEN {<<>>}
    ELSE UNION {{<<x>> \o q : q \in IterationOrders(S \ {x})} : x \in S}

\* "for hostname in viable_hostname_set if ...connection_time > 0", sorted:
\* relays with equal times come in the order the set was iterated in
servers_by_connection_time(order, times) ==
    LET listed == SelectSeq(order, LAMBDA h : times[h] > 0)
    IN  Ranked([i \in 1..Len(listed) |->
                  <<listed[i], times[listed[i]], Ascending(times[listed[i]])>>])

SetMax(S) == CHOOSE x \in S : \A y \in S : y <= x

\* max(... if hostname in viable_hostname_set and download_speed > 0, default=1)
max_download(res) ==
    LET speeds == {r.speedtest.download_speed : r \in
                      {x \in Range(ViableResults(res)) : x.speedtest.download_speed > 0}}
    IN  IF speeds = {} THEN 1 ELSE SetMax(speeds)

max_upload(res) ==
    LET speeds == {r.speedtest.upload_speed : r \in
                      {x \in Range(ViableResults(res)) : x.speedtest.upload_speed > 0}}
    IN  IF speeds = {} THEN 1 ELSE SetMax(speeds)

\* "if not viable: continue" and "if download_speed <= 0 or avg_latency <= 0:
\* continue"
Scored(r) == r.viable /\ r.speedtest.download_speed > 0 /\ r.mtr.avg_latency > 0

\* The four components of a score, each an exact fraction num / den.
\* "download_norm = speed.download_speed / max_download"
download_norm(speed, maxd) == [num |-> speed.download_speed, den |-> maxd]

\* "upload_norm = speed.upload_speed / max_upload"
upload_norm(speed, maxu) == [num |-> speed.upload_speed, den |-> maxu]

\* "ping_factor = 1 / (1 + mtr.avg_latency / 100)"
ping_factor(mtr) == [num |-> 100, den |-> 100 + mtr.avg_latency]

\* "packet_loss = speed.packet_loss + mtr.packet_loss;
\*  reliability_factor = 1 - (packet_loss / 100)"
reliability_factor(speed, mtr) ==
    [num |-> 100 - (speed.packet_loss + mtr.packet_loss), den |-> 100]

\* a score without the download term
ScoreWithoutDownload(speed, mtr, maxd, maxu) ==
    [num |-> (200 * speed.upload_speed * maxd
              + (100 - (speed.packet_loss + mtr.packet_loss)) * maxd * maxu)
                 * (100 + mtr.avg_latency)
             + 30000 * maxd * maxu,
     den |-> 100 + mtr.avg_latency]

\* download_norm * 0.4 + upload_norm * 0.2 + ping_factor * 0.3
\* + reliability_factor * 0.1, with ping_factor = 1 / (1 + avg_latency / 100)
\* and reliability_factor = 1 - packet_loss / 100
Score(speed, mtr, maxd, maxu) ==
    [num |-> (400 * speed.download_speed * maxu
              + 200 * speed.upload_speed * maxd
              + (100 - (speed.packet_loss + mtr.packet_loss)) * maxd * maxu)
                 * (100 + mtr.avg_latency)
             + 30000 * maxd * maxu,
     den |-> 100 + mtr.avg_latency]

\* a > b for two scores of one run
Higher(a, b) == a.num * b.den > b.num * a.den

\* sorted(scores.items(), key=lambda x: x[1], reverse=True)
SortedByScore(seq) ==
    \* higher scores first, equal scores in their order
    SortSeq(seq, LAMBDA a, b : Higher(a[2], b[2]))

\* _calculate_best_overall_servers: <<hostname, score>>, best first
CalculateBestOverallServers(res) ==
    LET listed == SelectSeq(res, Scored)
    IN  SortedByScore([i \in 1..Len(listed) |->
                         <<listed[i].hostname,
                           Score(listed[i].speedtest, listed[i].mtr,
                                 max_download(res), max_upload(res))>>])

\* "if self.results: self._print_summary(...)"; run_tests returns.  The
\* tables are made "if viable_servers > 0", each of the first five entries.
Summary ==
    /\ pc = "summary"
    /\ pc' = "done"
    /\ IF results # <<>> /\ viable_servers > 0
       THEN /\ \E order \in IterationOrders(viable_hostname_set(results)) :
                  rankings' =
                     [distance |-> Top(servers_by_distance(servers, results), TopN),
                      connection_time |->
                         Top(servers_by_connection_time(order, connection_time), TopN),
                      download |-> Top(servers_by_download(results), TopN),
                      upload |-> Top(servers_by_upload(results), TopN),
                      latency |-> Top(servers_by_latency(results), TopN),
                      packet_loss |-> Top(servers_by_packet_loss(results), TopN)]
            /\ best_overall' = CalculateBestOverallServers(results)
       ELSE UNCHANGED <<rankings, best_overall>>
    /\ UNCHANGED <<parsevars, resvars, interactive, db_rows, objvars, argvars, calvars,
                   runvars, testvars>>

----------------------------------------------------------------------------

\* the steps that do not talk to an external process
Internal ==
    \/ StartRun
    \/ CalSelect
    \/ CalFinish
    \/ SelectInitial
    \/ LoopPop
    \/ LoopExit
    \/ GoalAchieved
    \/ ContinueInitial
    \/ AddNextServer
    \/ NoMoreServers
    \/ Summary

\* long runs
Next ==
    \/ Internal
    \/ HardLimitReached
    \/ CalConnect(RunProbe)
    \/ CalDisconnect(RunProbe)
    \/ Record(RunProbe)
    \/ CreateSession(RunProbe)
    \/ Connect(RunProbe)
    \/ RunSpeedtest(RunProbe)
    \/ RunMtr(RunProbe)

Spec == Init /\ [][Next]_vars

\* Runs with the full probe.  Their pools are smaller than
\* MAX_SERVERS_HARD_LIMIT, so HardLimitReached is never enabled in them.
NextProbe ==
    \/ Internal
    \/ CalConnect(FullProbe)
    \/ CalDisconnect(FullProbe)
    \/ Record(FullProbe)
    \/ CreateSession(FullProbe)
    \/ Connect(FullProbe)
    \/ RunSpeedtest(FullProbe)
    \/ RunMtr(FullProbe)

\* the long runs from the default location, over WireGuard relays at any
\* distance: the full pool from the nearest relay on with one relay asked
\* for, and the pools of no and of two relays with two asked for
InitLive ==
    /\ Init
    /\ reference_location = DEFAULT_LOCATION
    /\ protocol = "WireGuard"
    /\ max_distance = None
    /\ \/ Len(servers) = MaxPool /\ servers[1] = Catalog[1] /\ max_servers = 1
       \/ Len(servers) \in {0, 2} /\ max_servers = 2

\* The long runs of a program that keeps running: run_tests is sequential
\* code, so a step that can be taken is taken.
SpecLive == InitLive /\ [][Next]_vars /\ WF_vars(Next)

SpecProbe == InitProbe /\ [][NextProbe]_vars

\* Runs in which the store can fail and a process can stay away.
NextCalls ==
    \/ Internal
    \/ CalConnect(CallProbe)
    \/ CalDisconnect(CallProbe)
    \/ Record(CallProbe)
    \/ CreateSession(CallProbe)
    \/ Connect(CallProbe)
    \/ RunSpeedtest(CallProbe)
    \/ RunMtr(CallProbe)

SpecCalls == InitCalls /\ [][NextCalls]_vars

----------------------------------------------------------------------------
(* The summary alone, over the results a run can have collected.           *)

\* the relays with a result: the nearest WireGuard relays of the catalog
SummaryPool == SubSeq(Catalog, 2, 1 + MaxScored)

\* measurements with different uploads, latencies and packet losses
SummarySpeedtests ==
    {FailedSpeedtest, Measured(MIN_DOWNLOAD_SPEED - 1), Measured(MIN_DOWNLOAD_SPEED),
     Measured(MIN_DOWNLOAD_SPEED + 1),
     SpeedTestResult(MIN_DOWNLOAD_SPEED + 1, 5, 20, 1, 10),
     SpeedTestResult(MIN_DOWNLOAD_SPEED + 2, 5, 20, 1, 60)}

SummaryMtrs == {FailedMtr, Traced(30), MtrResult(60, 5, 8), MtrResult(60, 60, 8)}

\* what test_server can return for a relay, and the connection time it
\* leaves in the relay
TestOutcomes ==
    {[speedtest |-> ConnectFailed.speedtest, mtr |-> ConnectFailed.mtr,
      viable |-> ConnectFailed.viable, time |-> 0]}
    \cup {[speedtest |-> r,
            mtr |-> IF SkipMtr(r) THEN FailedMtr ELSE m,
            viable |-> SpeedViable(r)
                       /\ Responded(r, IF SkipMtr(r) THEN FailedMtr ELSE m),
            time |-> t] :
             r \in SummarySpeedtests, m \in SummaryMtrs, t \in {2000, 3000}}

\* the main loop is over after the first n relays of the pool were tested
InitSummary ==
    /\ servers = SummaryPool
    /\ reference_location = DEFAULT_LOCATION
    /\ interactive = FALSE
    /\ protocol = "WireGuard"
    /\ max_servers = MaxScored
    /\ max_distance = None
    /\ pc = "summary"
    /\ user_continent = GetLocationContinent(reference_location)
    /\ connection_timeout = MAX_CONNECTION_TIME
    /\ test_servers = <<>>
    /\ conn_times = <<>>
    /\ session_id = None
    /\ remaining_servers = <<>>
    /\ total_servers_to_test = <<>>
    /\ server = NoServer
    /\ speedtest_result = FailedSpeedtest
    /\ mtr_result = FailedMtr
    /\ viable = FALSE
    /\ outcome = "list_empty"
    /\ expansion = [entered |-> FALSE, tested |-> 0, viable |-> 0]
    /\ trace = <<>>
    /\ geo_log = <<>>
    /\ run_no = 1
    /\ db_rows = <<>>
    /\ rankings = NoRankings
    /\ best_overall = <<>>
    /\ coords_cache = EmptyCache
    /\ cache_file = EmptyCache
    /\ default_coords = NoDefault
    /\ lines = <<>>
    /\ line_no = 0
    /\ reference_coords = ReferenceCoords(reference_location)
    /\ current_country = ""
    /\ current_city = ""
    /\ current_coords = Unbound
    /\ parsed = <<>>
    /\ \E n \in 1..MaxScored :
          \E found \in [1..n -> TestOutcomes] :
             /\ results = [i \in 1..n |->
                             [hostname |-> servers[i].hostname,
                              speedtest |-> found[i].speedtest,
                              mtr |-> found[i].mtr,
                              viable |-> found[i].viable]]
             /\ connection_time =
                   [h \in Hostnames |->
                      IF \E i \in 1..n : servers[i].hostname = h
                      THEN found[CHOOSE i \in 1..n : servers[i].hostname = h].time
                      ELSE 0]
             /\ tested_servers = SubSeq(servers, 1, n)
             /\ initial_servers = SubSeq(servers, 1, n)
             /\ viable_servers = Cardinality({i \in 1..n : found[i].viable})
             /\ successful_servers =
                   Cardinality({i \in 1..n : Responded(found[i].speedtest,
                                                       found[i].mtr)})

SpecSummary == InitSummary /\ [][Summary]_vars

----------------------------------------------------------------------------
(* Properties of the progressive search (Spec).                            *)

\* how many relays of list carry the country code cc
CountOfCountry(list, cc) ==
    Cardinality({i \in 1..Len(list) : CountryCode(list[i]) = cc})

CountryCodes == {Catalog[i].hostname[1] : i \in 1..Len(Catalog)}

\* C1: at every moment of a run the number of relays tested so far is at
\* most MAX_SERVERS_HARD_LIMIT, whatever --max-servers is (including values
\* above the hard limit).
C1_TestedWithinHardLimit == Len(tested_servers) <= MAX_SERVERS_HARD_LIMIT

\* C2: once the main loop is over, every relay of the initial batch has been
\* tested, in batch order: reaching the quota of viable relays while batch
\* relays are still queued does not end the run.
C2_InitialBatchExhausted ==
    pc \in {"summary", "done"} =>
        /\ Len(tested_servers) >= Len(initial_servers)
        /\ SubSeq(tested_servers, 1, Len(initial_servers)) = initial_servers

\* C2 witness: a finished run with a batch of five whose first two relays were
\* viable (the quota of MIN_VIABLE_SERVERS) and whose other three were tested
C2_QuotaMetEarly ==
    /\ pc = "done"
    /\ Len(initial_servers) = 5
    /\ Len(tested_servers) = 5
    /\ Len(results) = 5
    /\ results[1].viable
    /\ results[2].viable
    /\ MIN_VIABLE_SERVERS <= 2

AdditionalTests == Len(tested_servers) - expansion.tested

\* C5 as stated: the relays tested after the expansion was entered number at
\* most min(hardLimit - testedCount, (minViable - viableCount) * 3), both
\* tallies taken at the moment of entry.
C5_ExpansionWithinBudget ==
    expansion.entered =>
        LET byLimit == MAX_SERVERS_HARD_LIMIT - expansion.tested
            byQuota == (MIN_VIABLE_SERVERS - expansion.viable) * 3
        IN  AdditionalTests <= (IF byLimit < byQuota THEN byLimit ELSE byQuota)

\* C5: the relays tested after the expansion was entered number at most
\* hardLimit - testedCount, taken at the moment of entry, and none when that
\* difference is negative; the quota of viable relays gives no further bound.
C5_ExpansionWithinHardLimit ==
    expansion.entered =>
        LET byLimit == MAX_SERVERS_HARD_LIMIT - expansion.tested
        IN  AdditionalTests <= (IF byLimit < 0 THEN 0 ELSE byLimit)

\* C5 witness: the expansion was entered after one test with one viable relay
\* and went on for four more tests, to the hard limit
C5_ExpansionToHardLimit ==
    /\ pc = "done"
    /\ outcome = "hard_limit"
    /\ expansion = [entered |-> TRUE, tested |-> 1, viable |-> 1]
    /\ AdditionalTests = MAX_SERVERS_HARD_LIMIT - 1

----------------------------------------------------------------------------
(* Properties of the per-relay procedure and the calibration (SpecProbe).  *)

\* the connection attempt for the relay under test failed
ConnectionFailed == trace # <<>> /\ trace[1] # "connected"

\* C3: when test_server returns, the relay is viable exactly when the
\* connection succeeded, the download speed is positive, the latency is
\* positive and the download speed is at least MIN_DOWNLOAD_SPEED (a speed
\* equal to the threshold is viable).
C3_ViableIff ==
    pc = "record" =>
        (viable <=> /\ trace[1] = "connected"
                    /\ speedtest_result.download_speed > 0
                    /\ mtr_result.avg_latency > 0
                    /\ speedtest_result.download_speed >= MIN_DOWNLOAD_SPEED)

\* C3 witness: a relay measured exactly at the threshold and found viable
C3_ViableAtThreshold ==
    /\ pc = "record"
    /\ viable
    /\ speedtest_result.download_speed = MIN_DOWNLOAD_SPEED
    /\ mtr_result.avg_latency > 0

\* mean of the samples times 1.5, to the millisecond
BufferedMean(times) == ((Sum(times) \div Len(times)) * 3) \div 2

\* C6 as stated: calibration leaves the timeout at 1.5 times the mean of the
\* successful samples clamped to [10 s, DEFAULT_CONNECTION_TIME], or at
\* DEFAULT_CONNECTION_TIME when no sample connected.
C6_TimeoutClamped ==
    [][(pc = "cal_connect" /\ pc' = "session") =>
        connection_timeout' =
            IF conn_times = <<>> THEN DEFAULT_CONNECTION_TIME
            ELSE IF BufferedMean(conn_times) < 10000 THEN 10000
            ELSE IF BufferedMean(conn_times) > DEFAULT_CONNECTION_TIME
                 THEN DEFAULT_CONNECTION_TIME
            ELSE BufferedMean(conn_times)]_vars

\* C6: calibration leaves the timeout at the smaller of 1.5 times the mean of
\* the successful samples and DEFAULT_CONNECTION_TIME, with no lower clamp,
\* or at DEFAULT_CONNECTION_TIME when no sample connected; it is positive
\* and at most DEFAULT_CONNECTION_TIME.
C6_TimeoutCapped ==
    [][(pc = "cal_connect" /\ pc' = "session") =>
        /\ connection_timeout' =
              IF conn_times = <<>> THEN DEFAULT_CONNECTION_TIME
              ELSE IF BufferedMean(conn_times) > DEFAULT_CONNECTION_TIME
                   THEN DEFAULT_CONNECTION_TIME
              ELSE BufferedMean(conn_times)
        /\ connection_timeout' > 0
        /\ connection_timeout' <= DEFAULT_CONNECTION_TIME]_vars

\* C6 witness: calibration has ended with a timeout below ten seconds
C6_TimeoutBelowTenSeconds ==
    /\ pc = "session"
    /\ connection_timeout = 3000

\* C7: when the connection to a relay fails, test_server returns the failed
\* speed and latency results and viable = False without running the speed
\* test or the MTR test; the result is recorded, no tally of viable relays
\* moves, and the loop goes on: it takes the next queued relay when there is
\* one, and otherwise decides as after any other test.
C7_ConnectionFailure ==
    [][/\ (pc' = "record" /\ trace' # <<>> /\ trace'[1] # "connected") =>
            /\ Len(trace') = 1
            /\ speedtest_result' = SpeedTestResult(0, 0, 0, 0, 100)
            /\ mtr_result' = MtrResult(0, 100, 0)
            /\ ~viable'
       /\ (pc = "record" /\ ConnectionFailed) =>
            /\ pc' = "control"
            /\ results' # <<>>
            /\ \E i \in 1..Len(results') :
                  results'[i] = [hostname |-> server.hostname,
                                 speedtest |-> SpeedTestResult(0, 0, 0, 0, 100),
                                 mtr |-> MtrResult(0, 100, 0),
                                 viable |-> FALSE]
            /\ viable_servers' = viable_servers
       /\ (pc = "control" /\ ConnectionFailed) =>
            /\ pc' \in {"loop", "summary"}
            /\ total_servers_to_test # <<>> =>
                  pc' = "loop" /\ total_servers_to_test' = total_servers_to_test
      ]_vars

\* C7 witness: the first relay's connection failed, its failed result is
\* recorded, and the second relay is being connected to
C7_NextAfterFailure ==
    /\ pc = "connect"
    /\ Len(tested_servers) = 2
    /\ Len(results) = 1
    /\ results[1].speedtest = FailedSpeedtest
    /\ ~results[1].viable
    /\ connection_time[tested_servers[1].hostname] = 0

\* C8: for a connected relay the MTR test is run exactly when the download
\* speed is positive; with a download speed of zero it is not run and the
\* latency result is the failed one.
C8_MtrIffDownload ==
    (pc = "record" /\ ~ConnectionFailed) =>
        /\ ("mtr" \in Range(trace)) <=> (speedtest_result.download_speed > 0)
        /\ speedtest_result.download_speed = 0 => mtr_result = MtrResult(0, 100, 0)

\* C8 witness: a connected relay whose speed test failed and whose MTR test
\* was not run
C8_MtrSkipped ==
    /\ pc = "record"
    /\ trace = <<"connected", "speedtest">>
    /\ speedtest_result.download_speed = 0

\* C9 as stated: every speed test is preceded by a stabilization wait, which
\* itself follows the successful connection.
C9_WaitBeforeSpeedtest ==
    \A i \in 1..Len(trace) :
        trace[i] = "speedtest" => (i > 1 /\ trace[i - 1] = "wait")

\* C9: every speed test is the step next after the successful connection to
\* the relay; nothing, and no wait, comes between them, and no speed test is
\* run on a relay whose connection failed.
C9_SpeedtestNextAfterConnect ==
    \A i \in 1..Len(trace) :
        trace[i] = "speedtest" => (i = 2 /\ trace[1] = "connected")

\* C9 witness: a speed test was run
C9_SpeedtestRun ==
    /\ pc = "mtr"
    /\ trace = <<"connected", "speedtest">>

----------------------------------------------------------------------------
(* Properties of the catalog parser (SpecParse).                           *)

\* the lines of a catalog that have the shape of a relay line
RelayLines(catalog) ==
    {i \in 1..Len(catalog) : catalog[i].form = "relay"}

\* C10: when construction has finished with the catalog, the relay pool has
\* exactly one record per relay-shaped line, whatever other lines the
\* catalog holds: a line no pattern recognises (a city heading the parser
\* rejects before relay lines included) drops no relay and aborts nothing.
C10_OneRecordPerRelayLine ==
    pc \in {"start", "exit"} => Len(servers) = Cardinality(RelayLines(lines))

\* C11: the pool the parser returns is in non-decreasing order of distance
\* and relays of equal distance keep the order in which they were parsed;
\* with the sentinel as reference coordinate every distance is infinite and
\* the pool is in parse order.
C11_SortedStable ==
    pc = "start" =>
        /\ Len(servers) = Len(parsed)
        /\ \A i, j \in 1..Len(servers) :
              i < j => servers[i].distance_km <= servers[j].distance_km
        /\ \A k \in 1..Len(parsed) :
              SelectSeq(servers, LAMBDA r : r.distance_km = parsed[k].distance_km)
                = SelectSeq(parsed, LAMBDA r : r.distance_km = parsed[k].distance_km)
        /\ reference_coords = NoCoords =>
              /\ servers = parsed
              /\ \A i \in 1..Len(servers) : servers[i].distance_km = Inf

\* C11 witness: a pool whose order differs from the parse order
C11_Reordered ==
    /\ pc = "start"
    /\ Len(servers) = 2
    /\ servers # parsed
    /\ servers[1].distance_km < servers[2].distance_km

\* C12: a parsed relay has infinite distance exactly when its coordinates or
\* the reference coordinates are the sentinel, every other distance being
\* finite, and in the returned pool no relay of infinite distance precedes a
\* relay of finite distance.
C12_UnknownLocationLast ==
    [][/\ parsed' # parsed =>
            ((parsed'[Len(parsed')].distance_km = Inf)
                <=> (current_coords = NoCoords \/ reference_coords = NoCoords))
       /\ (pc = "parse" /\ pc' = "start") =>
            \A i, j \in 1..Len(servers') :
                (i < j /\ servers'[i].distance_km = Inf)
                    => servers'[j].distance_km = Inf
      ]_vars

\* C12 witness: a relay of unknown location was parsed first and is last in
\* the pool, after a relay of finite distance
C12_UnknownMovedLast ==
    /\ pc = "start"
    /\ Len(servers) = 2
    /\ parsed[1].distance_km = Inf
    /\ servers[1].distance_km < Inf
    /\ servers[2].distance_km = Inf

----------------------------------------------------------------------------
(* Properties of the location resolver (SpecResolve).                      *)

\* the geocoder was called and gave no result
LookupFailed(call) == call.outcome \in {"not_found", "error"}

\* C14 as stated: a non-interactive call for a location that is not cached
\* and whose geocoding fails returns the caller's default coordinates when
\* there are any and the sentinel otherwise, for every location.
C14_DefaultThenSentinel ==
    [][(geo_log' # geo_log /\ LookupFailed(geo_log'[Len(geo_log')])) =>
        reference_coords' = IF default_coords # NoDefault THEN default_coords
                            ELSE NoCoords]_vars

\* C14: a non-interactive call returns the cached coordinates when the
\* location is cached; otherwise the geocoder is asked, and when it fails the
\* call returns the caller's default coordinates if there are any, else
\* BEIJING_COORDS if the location starts with "beijing" in any letter case,
\* else the sentinel.
C14_ResolverChain ==
    [][geo_log' # geo_log =>
        LET call == geo_log'[Len(geo_log')]
            beijing == SubSeq(CleanLocation(reference_location), 1, 7)
                         = <<"b", "e", "i", "j", "i", "n", "g">>
        IN  /\ reference_coords' = call.coords
            /\ (call.outcome = "cached")
                  <=> (coords_cache[reference_location] # Unbound)
            /\ call.outcome = "cached" =>
                  reference_coords' = coords_cache[reference_location]
            /\ LookupFailed(call) =>
                  reference_coords' =
                      IF default_coords # NoDefault THEN default_coords
                      ELSE IF beijing THEN BEIJING_COORDS
                      ELSE NoCoords]_vars

\* C14 witness: the geocoder failed for a location that starts with
\* "Beijing", no default was given, and the call returned BEIJING_COORDS
C14_BuiltInBeijing ==
    /\ pc = "locate"
    /\ geo_log # <<>>
    /\ LookupFailed(geo_log[Len(geo_log)])
    /\ geo_log[Len(geo_log)].location = DEFAULT_LOCATION
    /\ geo_log[Len(geo_log)].run = run_no
    /\ default_coords = NoDefault
    /\ reference_coords = BEIJING_COORDS

\* C15 as stated: after a call for a location has reached the geocoder, no
\* later call for the same location reaches it again, whether the first
\* lookup succeeded or failed, in the same process or a later one.
C15_GeocodedOnce ==
    \A i, j \in 1..Len(geo_log) :
        (i < j /\ geo_log[i].location = geo_log[j].location
               /\ geo_log[i].outcome # "cached")
            => geo_log[j].outcome = "cached"

\* C15: after a call for a location has reached the geocoder and got a
\* result, every later call for the same location by the same tester returns
\* that result from the cache without asking the geocoder; a lookup that
\* failed is not cached, and a later process asks again unless the cache file
\* was written and loaded.
C15_FoundIsCached ==
    \A i, j \in 1..Len(geo_log) :
        (i < j /\ geo_log[i].location = geo_log[j].location
               /\ geo_log[i].run = geo_log[j].run
               /\ geo_log[i].outcome = "found")
            => /\ geo_log[j].outcome = "cached"
               /\ geo_log[j].coords = geo_log[i].coords

\* C15 witness: a location was geocoded and then answered from the cache by
\* the same tester
C15_SecondCallCached ==
    /\ Len(geo_log) = 2
    /\ geo_log[1].outcome = "found"
    /\ geo_log[2].outcome = "cached"
    /\ geo_log[1].location = geo_log[2].location
    /\ geo_log[1].run = geo_log[2].run

----------------------------------------------------------------------------
(* Properties of the persistent store (SpecCalls).                         *)

\* the relays whose test has been recorded: all of tested_servers but the
\* one under test
RecordedServers ==
    IF pc \in {"connect", "speedtest", "mtr", "record", "blocked"}
    THEN Front(tested_servers)
    ELSE tested_servers

\* C16: a failure of the store (the session row is not created, or the row
\* of a result is not inserted) never aborts the run and leaves the tested
\* sequence, the tallies and the in-memory results as they are without it:
\* whatever the store holds, results has one entry per recorded relay, in the
\* order tested, and viable_servers counts the viable ones among them.
C16_StoreFailureSwallowed ==
    /\ pc # "aborted"
    /\ pc \notin {"start", "calibrate", "cal_connect", "cal_disconnect", "session",
                  "select", "exit"}
          => /\ Len(results) = Len(RecordedServers)
             /\ \A i \in 1..Len(results) :
                   results[i].hostname = RecordedServers[i].hostname
             /\ viable_servers =
                   Cardinality({i \in 1..Len(results) : results[i].viable})
             /\ Len(db_rows) <= Len(results)

\* a run that tested two relays to the end although the session exists and
\* no row was stored
C16_RunCompletedWithoutRows ==
    /\ pc = "done"
    /\ session_id # None
    /\ Len(tested_servers) = 2
    /\ Len(results) = 2
    /\ viable_servers = 2
    /\ db_rows = <<>>

----------------------------------------------------------------------------
(* Properties of the external calls (SpecCalls).                           *)

\* C17: every external process called during calibration or a relay test is
\* waited for with a time limit, with and without the interactive display, so
\* the run is never left waiting for a process that does not return.
C17_NoCallBlocks == pc # "blocked"

\* C18: connect_to_server never reports success with a recorded connection
\* time at or above the connection timeout in force.
C18_SuccessBelowTimeout ==
    (pc \in {"speedtest", "mtr", "record"} /\ trace # <<>> /\ trace[1] = "connected")
        => connection_time[server.hostname] < connection_timeout

----------------------------------------------------------------------------
(* Properties of the summary (SpecSummary).                                *)

\* self.results[hostname]
ResultOf(h) == CHOOSE r \in Range(results) : r.hostname = h

\* two scored relays that differ in download only, the first being faster
DownloadOnlyDiffers(a, b) ==
    /\ a.speedtest.download_speed > b.speedtest.download_speed
    /\ a.speedtest.upload_speed = b.speedtest.upload_speed
    /\ a.mtr.avg_latency = b.mtr.avg_latency
    /\ a.speedtest.packet_loss + a.mtr.packet_loss
          = b.speedtest.packet_loss + b.mtr.packet_loss

\* C19: of two viable relays scored in one run with equal upload, latency
\* and packet loss, the one with the strictly larger download has the strictly
\* larger composite score.
C19_DownloadRaisesScore ==
    \A i, j \in 1..Len(best_overall) :
        DownloadOnlyDiffers(ResultOf(best_overall[i][1]), ResultOf(best_overall[j][1]))
            => Higher(best_overall[i][2], best_overall[j][2])

\* a summary that scored two relays differing in download only
C19_TwoDownloadsScored ==
    /\ pc = "done"
    /\ \E i, j \in 1..Len(best_overall) :
          DownloadOnlyDiffers(ResultOf(best_overall[i][1]),
                              ResultOf(best_overall[j][1]))

\* the hostnames of a ranking
Ranks(ranking) == {ranking[i][1] : i \in 1..Len(ranking)}

\* every hostname the summary lists or scores
RankedHostnames ==
    Ranks(rankings.distance) \cup Ranks(rankings.connection_time)
    \cup Ranks(rankings.download) \cup Ranks(rankings.upload)
    \cup Ranks(rankings.latency) \cup Ranks(rankings.packet_loss)
    \cup Ranks(best_overall)

\* C20: no relay whose result is non-viable is scored or appears in a
\* ranking of the summary (distance, connection time, download, upload,
\* latency, packet loss, overall score).
C20_NonViableUnranked ==
    \A i \in 1..Len(results) :
        ~results[i].viable => results[i].hostname \notin RankedHostnames

\* a summary with rankings that left out a non-viable relay although it
\* connected and measured the largest download
C20_FastNonViableLeftOut ==
    /\ pc = "done"
    /\ rankings.download # <<>>
    /\ best_overall # <<>>
    /\ \E i \in 1..Len(results) :
          /\ ~results[i].viable
          /\ connection_time[results[i].hostname] > 0
          /\ \A j \in 1..Len(results) :
                results[j].speedtest.download_speed
                   <= results[i].speedtest.download_speed
          /\ results[i].hostname \notin RankedHostnames

----------------------------------------------------------------------------
(* Properties of a whole run (Spec).                                       *)

\* C21: with an empty relay pool the run is over at construction: nothing
\* is calibrated, no connection is attempted and no relay is tested.
C21_EmptyPoolAborts ==
    servers = <<>>
        => /\ pc = "exit"
           /\ user_continent = "unset"
           /\ connection_timeout = MAX_CONNECTION_TIME
           /\ conn_times = <<>>
           /\ tested_servers = <<>>
           /\ trace = <<>>
           /\ results = <<>>
           /\ \A h \in Hostnames : connection_time[h] = 0

\* a tester constructed over an empty pool
C21_EmptyPool == servers = <<>> /\ pc = "exit" /\ outcome = "none"

\* a test is under way: a relay was popped and its result is not yet looked at
TestUnderWay == pc \in {"connect", "speedtest", "mtr", "record", "blocked"}

\* C22: the stop condition is looked at after every test: once the viable
\* count has reached MIN_VIABLE_SERVERS and the tested count max_servers, the
\* loop ends there and no further relay is tested.
C22_DoneEndsTesting ==
    /\ (pc = "control" /\ viable_servers >= MIN_VIABLE_SERVERS /\ idx >= max_servers)
          => (ENABLED GoalAchieved) /\ ~(ENABLED AddNextServer)
             /\ ~(ENABLED ContinueInitial)
    /\ TestUnderWay
          => ~(viable_servers >= MIN_VIABLE_SERVERS /\ idx - 1 >= max_servers)
    /\ outcome = "goal" => ~TestUnderWay

\* the quota was met in the second phase and the run ended with candidates
\* left untested
C22_StoppedWithCandidatesLeft ==
    /\ pc = "done"
    /\ outcome = "goal"
    /\ expansion.entered
    /\ remaining_servers # <<>>

\* the loop gave up: the hard limit was reached or no candidate was left
GaveUp == outcome \in {"hard_limit", "no_more_servers"}

\* C23: when every relay test returns, the main loop ends; where it ends
\* because the hard limit was reached or no candidate was left, the quota is
\* not met and the run goes on to the summary and returns.
C23_LoopTerminates ==
    /\ <>(pc \in {"done", "exit"})
    /\ [](GaveUp => viable_servers < MIN_VIABLE_SERVERS /\ pc \in {"summary", "done"})
    /\ [](GaveUp => <>(pc = "done" /\ results # <<>>))

\* a run that ended at the hard limit, summary made, quota not met
C23_EndedAtHardLimit ==
    /\ pc = "done"
    /\ outcome = "hard_limit"
    /\ viable_servers < MIN_VIABLE_SERVERS
    /\ Len(tested_servers) = MAX_SERVERS_HARD_LIMIT

\* the continents whose CONTINENT_MAPPING list holds a country code
ContinentsOf(cc) ==
    {c \in DOMAIN CONTINENT_MAPPING :
        \E j \in 1..Len(CONTINENT_MAPPING[c]) : CONTINENT_MAPPING[c][j] = cc}

\* all_servers_filtered[max_servers:] of the run, as it was before the loop
UntestedAfterBatch ==
    RemainingAfter(FilterByDistance(ProtocolServers(servers, protocol), max_distance),
                   max_servers)

\* every relay of a list has a country code of the excluded continent only
AllInExcludedContinent(list) ==
    \A i \in 1..Len(list) : ContinentsOf(CountryCode(list[i])) = {user_continent}

TestedInExpansion ==
    {tested_servers[i] : i \in (max_servers + 1)..Len(tested_servers)}

CandidatesAfter ==
    {remaining_servers'[i] : i \in 1..Len(remaining_servers')}
       \cup {total_servers_to_test'[i] :
                 i \in (Len(total_servers_to_test) + 1)..Len(total_servers_to_test')}

\* C26: on entry to the second phase the regrouping drops only the relays
\* whose country code CONTINENT_MAPPING puts in the excluded continent:
\* every other untested relay, a relay whose country code is in no
\* continent included, is still a candidate afterwards.
C26_OnlyExcludedDropped ==
    [][(/\ pc = "control"
        /\ idx = max_servers
        /\ viable_servers < MIN_VIABLE_SERVERS)
       => \A i \in 1..Len(remaining_servers) :
             user_continent \notin ContinentsOf(CountryCode(remaining_servers[i]))
                => remaining_servers[i] \in CandidatesAfter]_vars

\* C27 (as claimed): during calibration every connection attempt, successful
\* or not, is followed by a disconnect before the next sample is attempted:
\* the sampling loop moves to its next relay only in the step of a
\* disconnect.
C27_DisconnectAfterEveryAttempt ==
    [][(test_servers # <<>> /\ test_servers' = Tail(test_servers))
          => pc = "cal_disconnect"]_vars

\* C27 (amended): during calibration a successful connection attempt is
\* followed by "mullvad disconnect" before the next sample is attempted; a
\* failed attempt is followed by the next sample directly, without a
\* disconnect.
C27_DisconnectAfterSuccess ==
    [][/\ (pc = "cal_connect" /\ Len(conn_times') > Len(conn_times))
            => (pc' = "cal_disconnect" /\ test_servers' = test_servers)
       /\ (pc = "cal_connect" /\ test_servers # <<>> /\ conn_times' = conn_times)
            => (pc' = "cal_connect" /\ test_servers' = Tail(test_servers))
       /\ pc = "cal_disconnect"
            => (pc' = "cal_connect" /\ test_servers' = Tail(test_servers))]_vars

\* the first sample failed and the second one, attempted right after it,
\* succeeded and is about to be disconnected
C27_SecondSampleAfterFailure ==
    /\ pc = "cal_disconnect"
    /\ Len(test_servers) < Len(AvailableContinents)
    /\ Len(conn_times) = 1

\* run_connection_calibration has been entered: it is the only place that
\* sets self.user_continent
Calibrated == user_continent # "unset"

\* C28 (as claimed): calibration runs exactly once per invocation of
\* run_tests: when run_tests is over, calibration has run.
C28_CalibratedEveryInvocation == pc = "done" => Calibrated

\* C28 (amended): in an invocation of run_tests that finds relays of the
\* requested protocol, calibration runs exactly once, before the first relay
\* test, and no later step changes the connection timeout it set; an
\* invocation that finds no such relay returns without calibrating.
C28_CalibratedOnceBeforeTests ==
    /\ [](pc = "done" => (Calibrated <=> outcome # "no_protocol_servers"))
    /\ []((TestUnderWay \/ tested_servers # <<>> \/ pc \in {"session", "select", "loop"})
            => Calibrated)
    \* calibration is entered once, from the start of run_tests
    /\ [][(pc' = "calibrate" => pc = "start") /\ pc' # "start"]_vars
    /\ [][user_continent' # user_continent
            => (pc = "calibrate" /\ ~Calibrated /\ tested_servers = <<>>
                /\ results = <<>> /\ trace = <<>>)]_vars
    \* only the steps of calibration set the timeout
    /\ [][connection_timeout' # connection_timeout
            => (pc \in {"calibrate", "cal_connect"} /\ tested_servers = <<>>
                /\ results = <<>> /\ trace = <<>>)]_vars

C28_TestedWithCalibratedTimeout ==
    /\ pc = "done"
    /\ Len(tested_servers) >= 2
    /\ successful_servers >= 2
    /\ connection_timeout = CalibratedTimeout(<<2000>>)

\* the lines of the catalog up to line n that match the country pattern, and
\* those that match the city pattern
CountryLinesUpTo(n) == {k \in 1..n : CountryMatch(lines[k])}

CityLinesUpTo(n) == {k \in 1..n : ~CountryMatch(lines[k]) /\ CityMatch(lines[k])}

\* C29: a country line resets the current-city context: a relay line that
\* follows a country line with no city line in between is parsed into a
\* relay that carries neither the city nor the coordinates of a city line
\* of a previous country.
C29_CountryResetsCity ==
    [][(/\ parsed' # parsed
        /\ \E c \in CountryLinesUpTo(line_no) :
              /\ \A k \in CityLinesUpTo(line_no) : k < c
              /\ CityLinesUpTo(line_no) # {})
       => LET relay == parsed'[Len(parsed')]
              earlier == {lines[k].name : k \in CityLinesUpTo(line_no)}
          IN  /\ relay.city \notin earlier
              /\ \A k \in CityLinesUpTo(line_no) : \A c \in CountryLinesUpTo(k) :
                    (\A d \in CountryLinesUpTo(k) : d <= c)
                       => (get_coordinates(lines[k].name, lines[c].name) # NoCoords
                           => relay.distance_km #
                                 CalculateDistance(
                                    get_coordinates(lines[k].name, lines[c].name)))]_vars

\* a fraction with a positive denominator lies in [0, 1]
InUnitInterval(f) == f.den > 0 /\ 0 <= f.num /\ f.num <= f.den

\* the relays of the run that _calculate_best_overall_servers scores
ScoredResults == {results[i] : i \in {j \in 1..Len(results) : Scored(results[j])}}

\* the three components that are kept within [0, 1]: the two speeds are
\* divided by their maximum among the viable relays, the latency is positive
ThroughputAndPingInUnitInterval ==
    pc = "done" =>
        \A r \in ScoredResults :
            /\ InUnitInterval(download_norm(r.speedtest, max_download(results)))
            /\ InUnitInterval(upload_norm(r.speedtest, max_upload(results)))
            /\ InUnitInterval(ping_factor(r.mtr))

\* C30: for every viable relay that is scored, each of the four components
\* of the score (download_norm, upload_norm, ping_factor,
\* reliability_factor) lies in [0, 1], whatever was measured, each of the
\* two packet losses being a percentage in 0..100.
C30_ComponentsInUnitInterval ==
    pc = "done" =>
        \A r \in ScoredResults :
            /\ r.speedtest.packet_loss \in 0..100
            /\ r.mtr.packet_loss \in 0..100
            /\ InUnitInterval(download_norm(r.speedtest, max_download(results)))
            /\ InUnitInterval(upload_norm(r.speedtest, max_upload(results)))
            /\ InUnitInterval(ping_factor(r.mtr))
            /\ InUnitInterval(reliability_factor(r.speedtest, r.mtr))

\* a list of relays is in non-decreasing order of distance
NonDecreasingDistance(list) ==
    \A i, j \in 1..Len(list) : i < j => list[i].distance_km <= list[j].distance_km

\* the relays tested so far that came from the initial batch, and those
\* that came from the second phase, each in the order they were tested
TestedFromBatch ==
    SubSeq(tested_servers, 1,
           IF max_servers < Len(tested_servers) THEN max_servers
           ELSE Len(tested_servers))

TestedFromExpansion == SubSeq(tested_servers, max_servers + 1, Len(tested_servers))

\* C31: the relays of the initial batch are tested in non-decreasing order
\* of distance, and so are the relays tested in the second phase; the same
\* holds for the relays queued for testing.
C31_TestedInDistanceOrder ==
    /\ NonDecreasingDistance(TestedFromBatch)
    /\ NonDecreasingDistance(TestedFromExpansion)
    /\ NonDecreasingDistance(initial_servers)
    /\ NonDecreasingDistance(total_servers_to_test)
    /\ tested_servers = SubSeq(initial_servers \o TestedFromExpansion,
                               1, Len(tested_servers))

C31_BothPhasesInOrder ==
    /\ pc = "done"
    /\ Len(TestedFromBatch) >= 2
    /\ Len(TestedFromExpansion) >= 2
    /\ TestedFromBatch[1].distance_km < TestedFromBatch[2].distance_km
    /\ TestedFromExpansion[1].distance_km < TestedFromExpansion[2].distance_km

\* C32: when the connection attempt for the relay under test failed, whatever
\* the way it failed, the connection time of the relay is 0 at the moment its
\* result is recorded, saved and logged, even when the relay connected
\* earlier as a calibration sample.
C32_FailedConnectionTimeZero ==
    (pc = "record" /\ ConnectionFailed) => connection_time[server.hostname] = 0

\* the recorded relays that answered with a positive download speed and a
\* positive latency
RespondedResults ==
    {i \in 1..Len(results) :
        results[i].speedtest.download_speed > 0 /\ results[i].mtr.avg_latency > 0}

\* the relay under test has been counted by test_server and its result is
\* not yet stored
CountedNotRecorded ==
    IF /\ pc = "record"
       /\ ~ConnectionFailed
       /\ speedtest_result.download_speed > 0
       /\ mtr_result.avg_latency > 0
    THEN 1 ELSE 0

\* C33: at every point 0 <= viable_servers <= successful_servers <=
\* len(tested_servers), where successful_servers counts the relays tested
\* with a positive download speed and a positive latency; a test raises the
\* number of tested relays by exactly 1, when the relay is taken from the
\* queue, and raises each of the other two counters by at most 1:
\* successful_servers inside test_server, viable_servers when the result is
\* recorded.
C33_CountersOrdered ==
    /\ [](/\ 0 <= viable_servers
          /\ viable_servers <= successful_servers
          /\ successful_servers <= Len(tested_servers)
          /\ successful_servers = Cardinality(RespondedResults) + CountedNotRecorded)
    /\ [][/\ pc = "loop" /\ pc' = "connect"
                => Len(tested_servers') = Len(tested_servers) + 1
          /\ ~(pc = "loop" /\ pc' = "connect") => tested_servers' = tested_servers
          /\ successful_servers' \in {successful_servers, successful_servers + 1}
          /\ viable_servers' \in {viable_servers, viable_servers + 1}
          /\ successful_servers' # successful_servers
                => pc \in {"speedtest", "mtr"} /\ pc' = "record"
          /\ viable_servers' # viable_servers
                => pc = "record" /\ viable /\ successful_servers > viable_servers
      ]_vars

\* two relays tested: one answered below the minimum download speed, the
\* other failed to connect, none is viable
C33_ThreeCountersApart ==
    /\ pc = "control"
    /\ Len(tested_servers) = 2
    /\ successful_servers = 1
    /\ viable_servers = 0
    /\ \E i \in 1..Len(results) : results[i].speedtest = FailedSpeedtest

\* the hostnames of a list of relays
HostnamesOf(list) == {list[i].hostname : i \in 1..Len(list)}

\* no hostname occurs twice in a list of relays
UniqueHostnames(list) == Cardinality(HostnamesOf(list)) = Len(list)

\* test_server is running for the relay taken last from the queue
TestRunning == pc \in {"connect", "speedtest", "mtr", "record", "blocked"}

\* C34: the relay identifiers of the pool being unique, no relay is tested
\* more than once: the relays tested, the relays queued and the remaining
\* candidates have no relay in common; so after every test results holds
\* exactly one entry per relay tested, and viable_servers is the number of
\* entries marked viable.
C34_NoRelayTestedTwice ==
    UniqueHostnames(servers) =>
        /\ UniqueHostnames(tested_servers \o total_servers_to_test \o remaining_servers)
        /\ HostnamesOf(initial_servers) \cap HostnamesOf(remaining_servers) = {}
        /\ ~TestRunning =>
              /\ Len(results) = Len(tested_servers)
              /\ HostnamesOf(results) = HostnamesOf(tested_servers)
        /\ TestRunning => Len(results) = Len(tested_servers) - 1
        /\ viable_servers = Cardinality({i \in 1..Len(results) : results[i].viable})

\* a finished run that tested relays of the batch and of the second phase,
\* some of them viable
C34_OneEntryPerRelay ==
    /\ pc = "done"
    /\ Len(tested_servers) > max_servers
    /\ max_servers >= 2
    /\ Len(tested_servers) >= 4
    /\ Len(results) = Len(tested_servers)
    /\ viable_servers >= 1
    /\ viable_servers < Len(results)

\* a relay passes the filters of the run: its protocol is the one asked for
\* and, with --max-distance, it lies within that distance
PassesFilters(s) ==
    /\ s.protocol = protocol
    /\ max_distance # None => s.distance_km <= max_distance

\* C35: every relay tested, in the initial batch and in the second phase
\* alike, is of the protocol asked for and, when a maximum distance is
\* given, lies within it; the same holds for the relays queued and for the
\* remaining candidates.
C35_TestedPassFilters ==
    /\ \A i \in 1..Len(tested_servers) : PassesFilters(tested_servers[i])
    /\ \A i \in 1..Len(total_servers_to_test) : PassesFilters(total_servers_to_test[i])
    /\ \A i \in 1..Len(remaining_servers) : PassesFilters(remaining_servers[i])
    /\ TestRunning => PassesFilters(server)

\* a finished run with --max-distance over a pool that holds a relay of the
\* other protocol and a relay of the protocol asked for beyond the distance:
\* relays were tested in both phases, the one tested last lying exactly at
\* the maximum distance
C35_FilteredBothPhases ==
    /\ pc = "done"
    /\ max_distance # None
    /\ \E i \in 1..Len(servers) : servers[i].protocol # protocol
    /\ \E i \in 1..Len(servers) :
          servers[i].protocol = protocol /\ servers[i].distance_km > max_distance
    /\ Len(tested_servers) > max_servers
    /\ max_servers >= 1
    /\ tested_servers[Len(tested_servers)].distance_km = max_distance

====
